---- MODULE Spec2Model ----
(***************************************************************************)
(* Model of the Feddit sentiment-analysis service: parameter validation,   *)
(* date parsing, the fast path and the date-aware pagination loop of       *)
(* SentimentService, with the upstream comment API as its environment; the *)
(* sentiment scorer and its TTL cache; the retry loop of the Feddit client.*)
(*                                                                         *)
(* Conventions.  An Optional value is a sequence of length at most one:    *)
(* None is << >> and a present value x is << x >>.  Instants (epoch        *)
(* seconds and datetimes alike) are integers on one time line; polarity    *)
(* scores are integers in tenths (-10 .. 10 stands for -1.0 .. 1.0).       *)
(***************************************************************************)
EXTENDS Integers, Sequences, FiniteSets, TLC

VARIABLES
    pages,                  \* upstream: the batches served at offsets 0, 100, 200, ...
    tail,                   \* upstream: the batch served at every later offset
    req,                    \* the arguments of analyze_subfeddit_sentiment
    pc,                     \* position of the request in analyze_subfeddit_sentiment
    validated_limit,        \* sentiment_service.py:373
    start_date,             \* parsed_start_date, sentiment_service.py:376
    end_date,               \* parsed_end_date, sentiment_service.py:376
    skip,                   \* sentiment_service.py:194
    all_matching_comments,  \* sentiment_service.py:195
    batch_comments,         \* the last batch received, sentiment_service.py:204
    branch,                 \* the branch the last loop iteration took
    calls,                  \* the get_comments calls issued, in order
    scored,                 \* the analyze_text calls made, in order (the texts)
    comments_with_sentiment,\* result of _fetch_and_analyze_comments
    error,                  \* the exception that left analyze_subfeddit_sentiment
    response,               \* the SentimentAnalysisResponse returned
    processed_comments,     \* sentiment_service.py:400
    info_calls,             \* the get_subfeddit_info calls issued
    now,                    \* the clock, time.time()
    cache,                  \* sentiment_cache._cache: key -> (value, expiry_time)
    last,                   \* the last call of the scorer or of the cache, and its result
    max_retries,            \* FedditClient.max_retries
    subfeddits_cache,       \* FedditClient._subfeddits_cache
    endpoint,               \* the endpoint of the _make_request call in progress
    retries,                \* its retries argument, at the current depth
    attempts,               \* the outcomes of its HTTP attempts
    sleeps,                 \* the seconds of its asyncio.sleep calls
    cpc,                    \* how far the call has got
    request_result,         \* what _make_request returned or raised
    caller_result,          \* what its caller returned or raised
    cache_timestamp,        \* FedditClient._cache_timestamp
    name_to_id_cache,       \* FedditClient._name_to_id_cache
    name_to_info_cache,     \* FedditClient._name_to_info_cache
    upstream_subfeddits,    \* the list that the upstream serves now
    lookup,                 \* the client call in progress: arguments, position,
                            \* the upstream requests it issued, its result
    http,                   \* what the route answered: status code and detail
    threads,                \* the threads at work on sentiment_cache: each one's
                            \* call, position in it, locals and result
    tasks                   \* the asyncio tasks at work on the client: each one's
                            \* call and its position in the list refresh

service_vars == << pages, tail, req, pc, validated_limit, start_date, end_date, skip,
                   all_matching_comments, batch_comments, branch, calls, scored,
                   comments_with_sentiment, error, response, processed_comments,
                   info_calls >>

scorer_vars == << now, cache, last >>

request_vars == << endpoint, retries, attempts, sleeps, cpc, request_result,
                   caller_result >>

lookup_vars == << cache_timestamp, name_to_id_cache, name_to_info_cache,
                  upstream_subfeddits, lookup >>

client_vars == << max_retries, subfeddits_cache, request_vars, lookup_vars >>

boundary_vars == << http, threads, tasks >>

vars == << service_vars, scorer_vars, client_vars, boundary_vars >>

----------------------------------------------------------------------------
(* Bounds of the model *)

MaxTime == 3
MaxTotal == 3
MaxLimit == 2
MaxTailLen == 2
MaxCalls == 103
MinLimitInput == 2
MaxLimitInput == 102
MaxSortLen == 3
MaxLate == 2

(* Program constants *)

default_comment_limit == 25
max_comment_limit == 100
batch_size == 100
safety_limit == 10000
cache_ttl_seconds == 3600
default_ttl == 3600
feddit_max_retries == 3
cache_ttl_minutes == 10

----------------------------------------------------------------------------
(* Optional values *)

None == << >>
Some(x) == << x >>
IsNone(o) == o = << >>
Val(o) == o[1]

Min(a, b) == IF a <= b THEN a ELSE b

Times == 1 .. MaxTime

----------------------------------------------------------------------------
(* __validate_parameters *)

(* The outcome of a call: the value it returned, or the exception raised. *)
Returned(v) == [raised |-> "", value |-> v]
Raised(kind) == [raised |-> kind, value |-> 0]

ValidSortOrders == {"asc", "desc"}

LimitCheck_ZeroAllowed(limit) ==
    IF IsNone(limit) THEN Returned(default_comment_limit)
    ELSE IF Val(limit) > max_comment_limit THEN Returned(max_comment_limit)
    ELSE IF Val(limit) < 0 THEN Raised("ValueError")
    ELSE Returned(Val(limit))

LimitCheck(limit) ==
    IF IsNone(limit) THEN Returned(default_comment_limit)
    ELSE IF Val(limit) > max_comment_limit THEN Returned(max_comment_limit)
    ELSE IF Val(limit) <= 0 THEN Raised("ValueError")
    ELSE Returned(Val(limit))

SortOrderCheck_IgnoreCase(sort_order) ==
    IF ~IsNone(sort_order) /\ Val(sort_order) \notin {"asc", "desc", "ASC", "Desc"}
    THEN Raised("ValueError")
    ELSE Returned(0)

SortOrderCheck(sort_order) ==
    IF ~IsNone(sort_order) /\ Val(sort_order) \notin ValidSortOrders
    THEN Raised("ValueError")
    ELSE Returned(0)

validate_parameters(limit, sort_order) ==
    LET l == LimitCheck(limit)
    IN  IF l.raised # "" THEN l
        ELSE IF SortOrderCheck(sort_order).raised # "" THEN SortOrderCheck(sort_order)
        ELSE l

----------------------------------------------------------------------------
(* _parse_date_parameters.  A date string is a record: kind "empty" is the *)
(* empty string, "garbage" a string dateutil cannot parse, "iso" a string  *)
(* that denotes the instant t.                                             *)

EmptyString == [kind |-> "empty", t |-> 0]
Garbage == [kind |-> "garbage", t |-> 0]
Iso(t) == [kind |-> "iso", t |-> t]

Truthy(s) == ~IsNone(s) /\ Val(s).kind # "empty"

parse_date_Lenient(s) == Returned(IF s.kind = "iso" THEN s.t ELSE 0)

parse_date(s) ==
    IF s.kind = "iso" THEN Returned(s.t) ELSE Raised("ParserError")

parse_date_parameters(start, end) ==
    LET ps == IF Truthy(start) THEN parse_date(Val(start)) ELSE Returned(0)
        pe == IF Truthy(end) THEN parse_date(Val(end)) ELSE Returned(0)
    IN  IF ps.raised # "" \/ pe.raised # ""
        THEN [raised |-> "ValueError", start |-> None, end |-> None]
        ELSE [raised |-> "",
              start |-> IF Truthy(start) THEN Some(ps.value) ELSE None,
              end |-> IF Truthy(end) THEN Some(pe.value) ELSE None]

----------------------------------------------------------------------------
(* The upstream comment API, seen through FedditClient.get_comments.  The  *)
(* batch served for an offset is the page of that offset; a page is the    *)
(* sequence of the created_at instants of its comments.  The comment at    *)
(* position i of the batch served at offset n carries the id n + i.        *)

Texts == << "awful", "fine", "great", "unscorable" >>

PayloadText(n) == Texts[(n % Len(Texts)) + 1]

UpstreamPage(k) == IF k <= Len(pages) THEN pages[k] ELSE tail

get_comments(skip_, limit_) ==
    LET page == UpstreamPage((skip_ \div batch_size) + 1)
    IN  [i \in 1 .. Len(page) |->
            [id |-> skip_ + i, text |-> PayloadText(skip_ + i), created_at |-> page[i]]]

(* What a get_comments call can do: return a batch, raise FedditAPIError   *)
(* (retries exhausted, subfeddit not found), or raise another exception    *)
(* (a payload entry without a required field).                             *)
Outcomes == {"ok", "FedditAPIError", "KeyError"}

----------------------------------------------------------------------------
(* The Result Cache: InMemoryCache.  The map is a function from keys to    *)
(* entries [value, expiry]; the empty map is << >>.                        *)

EmptyCache == << >>

create_key(text) == "md5:" \o text

is_expired_AtExpiry(expiry_time) == now >= expiry_time

is_expired(expiry_time) == now > expiry_time

Without(c, key) == [k \in DOMAIN c \ {key} |-> c[k]]

cache_get_KeepsExpired(c, key) ==
    IF key \notin DOMAIN c \/ is_expired(c[key].expiry)
    THEN [value |-> None, cache |-> c]
    ELSE [value |-> Some(c[key].value), cache |-> c]

(* get: the value returned and the map it leaves *)
cache_get(c, key) ==
    IF key \notin DOMAIN c THEN [value |-> None, cache |-> c]
    ELSE IF is_expired(c[key].expiry) THEN [value |-> None, cache |-> Without(c, key)]
    ELSE [value |-> Some(c[key].value), cache |-> c]

(* set: the map it leaves *)
cache_set(c, key, value, ttl) ==
    (key :> [value |-> value,
             expiry |-> now + (IF IsNone(ttl) THEN default_ttl ELSE Val(ttl))]) @@ c

----------------------------------------------------------------------------
(* The Sentiment Scorer.  TextBlob is the black box: a polarity for a      *)
(* text, or an exception.                                                  *)

TextBlob(text) ==
    CASE text = "awful" -> Returned(-7)
      [] text = "fine" -> Returned(0)
      [] text = "great" -> Returned(8)
      [] OTHER -> Raised("Exception")

classify_sentiment_Strict(polarity_score) ==
    IF polarity_score > 0 THEN "positive" ELSE "negative"

classify_sentiment(polarity_score) ==
    IF polarity_score >= 0 THEN "positive" ELSE "negative"

FallbackResult == [polarity_score |-> 0, classification |-> "positive"]

analyze_text_Propagating(c, text) ==
    [raised |-> TextBlob(text).raised,
     result |-> [polarity_score |-> TextBlob(text).value,
                 classification |-> classify_sentiment(TextBlob(text).value)],
     cache |-> c, invoked |-> TRUE]

(* analyze_text with the set after the try: the fallback is stored too *)
analyze_text_CachingFallback(c, text) ==
    LET cache_key == create_key(text)
        cached_result == cache_get(c, cache_key)
        blob == TextBlob(text)
        result == IF blob.raised = ""
                  THEN [polarity_score |-> blob.value,
                        classification |-> classify_sentiment(blob.value)]
                  ELSE FallbackResult
    IN  IF ~IsNone(cached_result.value)
        THEN [raised |-> "", result |-> Val(cached_result.value),
              cache |-> cached_result.cache, invoked |-> FALSE]
        ELSE [raised |-> "", result |-> result,
              cache |-> cache_set(cached_result.cache, cache_key, result,
                                  Some(cache_ttl_seconds)),
              invoked |-> TRUE]

(* analyze_text on the cache c: what it raises, the SentimentResult it     *)
(* returns, the cache it leaves, and whether it called the black box.      *)
analyze_text(c, text) ==
    LET cache_key == create_key(text)
        cached_result == cache_get(c, cache_key)
        blob == TextBlob(text)
        result == [polarity_score |-> blob.value,
                   classification |-> classify_sentiment(blob.value)]
    IN  IF ~IsNone(cached_result.value)
        THEN [raised |-> "", result |-> Val(cached_result.value),
              cache |-> cached_result.cache, invoked |-> FALSE]
        ELSE IF blob.raised = ""
        THEN [raised |-> "", result |-> result,
              cache |-> cache_set(cached_result.cache, cache_key, result,
                                  Some(cache_ttl_seconds)),
              invoked |-> TRUE]
        ELSE [raised |-> "", result |-> FallbackResult,
              cache |-> cached_result.cache, invoked |-> TRUE]

(* _analyze_comments_sentiment from the cache c, comment by comment: an    *)
(* exception of analyze_text would leave the loop.                         *)
RECURSIVE ScoreFrom(_, _)
ScoreFrom(comments, c) ==
    IF comments = << >> THEN [raised |-> "", comments |-> << >>, cache |-> c]
    ELSE LET first == analyze_text(c, Head(comments).text)
             rest == ScoreFrom(Tail(comments), first.cache)
         IN  IF first.raised # ""
             THEN [raised |-> first.raised, comments |-> << >>, cache |-> first.cache]
             ELSE [raised |-> rest.raised,
                   comments |-> << [id |-> Head(comments).id,
                                    text |-> Head(comments).text,
                                    created_at |-> Head(comments).created_at,
                                    sentiment |-> first.result] >> \o rest.comments,
                   cache |-> rest.cache]

analyze_comments_sentiment(comments) == ScoreFrom(comments, cache)

TextsOf(comments) == [i \in 1 .. Len(comments) |-> comments[i].text]

----------------------------------------------------------------------------
(* _sort_comments: Python's sorted() is stable, also with reverse=True *)

Lower(s) ==
    CASE s \in {"asc", "ASC", "Asc"} -> "asc"
      [] s \in {"tech", "Tech", "TECH"} -> "tech"
      [] s \in {"news", "News"} -> "news"
      [] s = "Technology" -> "technology"
      [] s \in {"desc", "DESC", "Desc"} -> "desc"
      [] s = "None" -> "none"
      [] s = "INVALID" -> "invalid"
      [] OTHER -> s

RECURSIVE InsertSorted(_, _, _)
InsertSorted(sorted, x, reverse) ==
    IF sorted = << >> THEN << x >>
    ELSE IF (IF reverse
             THEN Head(sorted).sentiment.polarity_score >= x.sentiment.polarity_score
             ELSE Head(sorted).sentiment.polarity_score <= x.sentiment.polarity_score)
         THEN << Head(sorted) >> \o InsertSorted(Tail(sorted), x, reverse)
         ELSE << x >> \o sorted

RECURSIVE SortedBy(_, _)
SortedBy(comments, reverse) ==
    IF comments = << >> THEN << >>
    ELSE InsertSorted(SortedBy(SubSeq(comments, 1, Len(comments) - 1), reverse),
                      comments[Len(comments)], reverse)

Reversed(seq) == [i \in 1 .. Len(seq) |-> seq[Len(seq) + 1 - i]]

sort_comments_ReverseOfAscending(comments, sort_order) ==
    IF Lower(sort_order) = "desc"
    THEN Reversed(SortedBy(comments, FALSE))
    ELSE SortedBy(comments, FALSE)

sort_comments(comments, sort_order) ==
    SortedBy(comments, Lower(sort_order) = "desc")

----------------------------------------------------------------------------
(* _fetch_with_date_aware_pagination: the decisions of one loop iteration *)

fromtimestamp(created_at) == created_at

ShouldSkipBatch_First(batch, start) ==
    ~IsNone(start) /\ fromtimestamp(batch[1].created_at) < Val(start)

ShouldSkipBatch_Never(batch, start) == FALSE

ShouldSkipBatch(batch, start) ==
    ~IsNone(start) /\ fromtimestamp(batch[Len(batch)].created_at) < Val(start)

ReachedAfterEnd_Last(batch, end) ==
    ~IsNone(end) /\ fromtimestamp(batch[Len(batch)].created_at) > Val(end)

ReachedAfterEnd(batch, end) ==
    ~IsNone(end) /\ fromtimestamp(batch[1].created_at) > Val(end)

InDateRange_NoEndCheck(comment, start, end) ==
    ~(~IsNone(start) /\ fromtimestamp(comment.created_at) < Val(start))

InDateRange_Exclusive(comment, start, end) ==
    /\ ~(~IsNone(start) /\ fromtimestamp(comment.created_at) <= Val(start))
    /\ ~(~IsNone(end) /\ fromtimestamp(comment.created_at) >= Val(end))

InDateRange(comment, start, end) ==
    /\ ~(~IsNone(start) /\ fromtimestamp(comment.created_at) < Val(start))
    /\ ~(~IsNone(end) /\ fromtimestamp(comment.created_at) > Val(end))

FilterBatch_Duplicating(batch, start, end) ==
    SelectSeq(batch, LAMBDA c : InDateRange(c, start, end))
        \o SelectSeq(batch, LAMBDA c : InDateRange(c, start, end))

FilterBatch(batch, start, end) ==
    SelectSeq(batch, LAMBDA c : InDateRange(c, start, end))

EnoughComments_Strict(matching, limit) == Len(matching) > limit

EnoughComments(matching, limit) == Len(matching) >= limit

SafetyLimitReached(skip_) == skip_ > safety_limit

KeepPartialResults_Always(matching) == TRUE

KeepPartialResults(matching) == matching # << >>

FinalComments_Untruncated(matching, limit) == matching

FinalComments(matching, limit) == SubSeq(matching, 1, Min(limit, Len(matching)))

(* `skip += batch_size` *)
NextSkip_ByLimit(skip_) == skip_ + validated_limit

NextSkip(skip_) == skip_ + batch_size

(* One pass through the body of `while True`, given what get_comments did. *)
(* branch: "raise" the exception leaves the method; every other value but  *)
(* "skip_ahead" and "next_batch" is a `break`.                             *)
LoopIteration(outcome) ==
    LET batch == get_comments(skip, batch_size)
        same == [skip |-> skip, matching |-> all_matching_comments]
    IN  IF outcome = "FedditAPIError"
        THEN IF KeepPartialResults(all_matching_comments)
             THEN [branch |-> "partial", batch |-> batch_comments] @@ same
             ELSE [branch |-> "raise", batch |-> batch_comments] @@ same
        ELSE IF outcome # "ok"
        THEN [branch |-> "raise", batch |-> batch_comments] @@ same
        ELSE IF batch = << >>
        THEN [branch |-> "exhausted", batch |-> batch] @@ same
        ELSE IF ShouldSkipBatch(batch, start_date)
        THEN [branch |-> "skip_ahead", batch |-> batch,
              skip |-> NextSkip(skip), matching |-> all_matching_comments]
        ELSE IF ReachedAfterEnd(batch, end_date)
        THEN [branch |-> "after_end", batch |-> batch] @@ same
        ELSE LET matching == all_matching_comments
                                \o FilterBatch(batch, start_date, end_date)
             IN  IF EnoughComments(matching, validated_limit)
                 THEN [branch |-> "enough", batch |-> batch,
                       skip |-> skip, matching |-> matching]
                 ELSE IF SafetyLimitReached(NextSkip(skip))
                 THEN [branch |-> "safety", batch |-> batch,
                       skip |-> NextSkip(skip), matching |-> matching]
                 ELSE [branch |-> "next_batch", batch |-> batch,
                       skip |-> NextSkip(skip), matching |-> matching]

Continues_AfterPartial(b) == b \in {"skip_ahead", "next_batch", "partial"}

Continues_PastEmpty(b) == b \in {"skip_ahead", "next_batch", "exhausted"}

Continues(b) == b \in {"skip_ahead", "next_batch"}

----------------------------------------------------------------------------
(* The request, step by step.  The steps are cut at the awaits.            *)

NoCall == [op |-> "none"]

NoLookup == [op |-> "none", name |-> "", skip |-> 0, limit |-> 0, pc |-> "idle",
             requests |-> << >>, outcomes |-> << >>, result |-> Returned(0),
             info |-> None, message |-> ""]

(* A client that has made no request yet *)
IdleClient ==
    /\ cache_timestamp = None
    /\ name_to_id_cache = << >>
    /\ name_to_info_cache = << >>
    /\ upstream_subfeddits = 0
    /\ lookup = NoLookup
    /\ subfeddits_cache = None
    /\ endpoint = ""
    /\ retries = 0
    /\ attempts = << >>
    /\ sleeps = << >>
    /\ cpc = "idle"
    /\ request_result = Returned(0)
    /\ caller_result = Returned(0)

(* No route call and no thread at work on the cache *)
NoHttp == [entered |-> FALSE, status |-> 0, detail |-> << >>]

IdleBoundary ==
    /\ http = NoHttp
    /\ threads = << >>
    /\ tasks = << >>

NoResponse == [total_comments |-> 0, comments |-> << >>, subfeddit_info |-> None,
               sent |-> FALSE]

(* analyze_subfeddit_sentiment up to its first get_comments call *)
Analyze ==
    /\ pc = "request"
    /\ LET v == validate_parameters(req.limit, req.sort_order)
           d == parse_date_parameters(req.start_date, req.end_date)
       IN  IF v.raised # ""
           THEN /\ pc' = "raised"
                /\ error' = v.raised
                /\ UNCHANGED << validated_limit, start_date, end_date >>
           ELSE IF d.raised # ""
           THEN /\ pc' = "raised"
                /\ error' = d.raised
                /\ validated_limit' = v.value
                /\ UNCHANGED << start_date, end_date >>
           ELSE /\ pc' = IF IsNone(d.start) /\ IsNone(d.end) THEN "fast" ELSE "loop"
                /\ validated_limit' = v.value
                /\ start_date' = d.start
                /\ end_date' = d.end
                /\ error' = error
    /\ UNCHANGED << boundary_vars, pages, tail, req, skip, all_matching_comments, batch_comments,
                    branch, calls, scored, comments_with_sentiment, response,
                    processed_comments, info_calls, scorer_vars, client_vars >>

(* The arguments of the fast path's get_comments call *)
FastRequest_DefaultLimit == [skip |-> 0, limit |-> default_comment_limit]

FastRequest == [skip |-> 0, limit |-> validated_limit]

(* _fetch_and_analyze_comments without a date window: one get_comments call *)
FastFetchOn(outcomes) ==
    /\ pc = "fast"
    /\ \E outcome \in outcomes :
        \E base_comments \in {get_comments(FastRequest.skip, FastRequest.limit)} :
        \E analyzed \in {analyze_comments_sentiment(base_comments)} :
            /\ calls' = Append(calls, FastRequest @@ [outcome |-> outcome])
            /\ IF outcome # "ok"
               THEN /\ pc' = "raised"
                    /\ error' = outcome
                    /\ UNCHANGED << batch_comments, scored, comments_with_sentiment,
                                    cache >>
               ELSE /\ batch_comments' = base_comments
                    /\ scored' = scored \o TextsOf(base_comments)
                    /\ cache' = analyzed.cache
                    /\ IF analyzed.raised # ""
                       THEN /\ pc' = "raised"
                            /\ error' = analyzed.raised
                            /\ UNCHANGED comments_with_sentiment
                       ELSE /\ pc' = "fetched"
                            /\ error' = error
                            /\ comments_with_sentiment' = analyzed.comments
    /\ UNCHANGED << boundary_vars, pages, tail, req, validated_limit, start_date, end_date, skip,
                    all_matching_comments, branch, response, processed_comments,
                    info_calls, now, last, client_vars >>

FastFetch == FastFetchOn(Outcomes)

(* One iteration of the loop of _fetch_with_date_aware_pagination and, when *)
(* it leaves the loop, the truncation and the scoring that follow it.       *)
LoopFetchOn(outcomes) ==
    /\ pc = "loop"
    /\ Len(calls) < MaxCalls
    /\ \E outcome \in outcomes :
        \E it \in {LoopIteration(outcome)} :
        \E final_comments \in {FinalComments(it.matching, validated_limit)} :
        \E analyzed \in {analyze_comments_sentiment(final_comments)} :
            /\ calls' = Append(calls, [skip |-> skip, limit |-> batch_size,
                                       outcome |-> outcome])
            /\ branch' = it.branch
            /\ batch_comments' = it.batch
            /\ skip' = it.skip
            /\ all_matching_comments' = it.matching
            /\ IF it.branch = "raise"
               THEN /\ pc' = "raised"
                    /\ error' = outcome
                    /\ UNCHANGED << scored, comments_with_sentiment, cache >>
               ELSE IF Continues(it.branch)
               THEN /\ pc' = "loop"
                    /\ UNCHANGED << error, scored, comments_with_sentiment, cache >>
               ELSE /\ scored' = scored \o TextsOf(final_comments)
                    /\ cache' = analyzed.cache
                    /\ IF analyzed.raised # ""
                       THEN /\ pc' = "raised"
                            /\ error' = analyzed.raised
                            /\ UNCHANGED comments_with_sentiment
                       ELSE /\ pc' = "fetched"
                            /\ error' = error
                            /\ comments_with_sentiment' = analyzed.comments
    /\ UNCHANGED << boundary_vars, pages, tail, req, validated_limit, start_date, end_date, response,
                    processed_comments, info_calls, now, last, client_vars >>

LoopFetch == LoopFetchOn(Outcomes)

SubfedditInfos == {None, Some("info")}

(* `if not comments_with_sentiment`: no metadata lookup for an empty result *)
WantsInfo_Always(comments) == TRUE

WantsInfo(comments) == comments # << >>

(* `if sort_order`: the sort is applied for a truthy sort_order *)
Processed(comments, sort_order) ==
    IF ~IsNone(sort_order) /\ Val(sort_order) # ""
    THEN sort_comments(comments, Val(sort_order))
    ELSE comments

TotalComments_Matching(processed) == Len(all_matching_comments)

TotalComments(processed) == Len(processed)

(* analyze_subfeddit_sentiment after the fetch: the empty short-circuit, or *)
(* the sort and the call of get_subfeddit_info.                             *)
Respond ==
    /\ pc = "fetched"
    /\ IF ~WantsInfo(comments_with_sentiment)
       THEN /\ response' = [total_comments |-> 0, comments |-> << >>,
                            subfeddit_info |-> None, sent |-> TRUE]
            /\ pc' = "done"
            /\ UNCHANGED << processed_comments, info_calls >>
       ELSE /\ processed_comments' = Processed(comments_with_sentiment, req.sort_order)
            /\ info_calls' = info_calls + 1
            /\ pc' = "info"
            /\ UNCHANGED response
    /\ UNCHANGED << boundary_vars, pages, tail, req, validated_limit, start_date, end_date, skip,
                    all_matching_comments, batch_comments, branch, calls, scored,
                    comments_with_sentiment, error, scorer_vars, client_vars >>

(* get_subfeddit_info returns (it never raises) and the response is built *)
InfoReturn ==
    /\ pc = "info"
    /\ \E info \in SubfedditInfos :
            response' = [total_comments |-> TotalComments(processed_comments),
                         comments |-> processed_comments,
                         subfeddit_info |-> info, sent |-> TRUE]
    /\ pc' = "done"
    /\ UNCHANGED << boundary_vars, pages, tail, req, validated_limit, start_date, end_date, skip,
                    all_matching_comments, batch_comments, branch, calls, scored,
                    comments_with_sentiment, error, processed_comments, info_calls,
                    scorer_vars, client_vars >>

Next == Analyze \/ FastFetch \/ LoopFetch \/ Respond \/ InfoReturn

----------------------------------------------------------------------------
(* Initial states: an upstream and a request *)

Batches(n) == UNION {[1 .. k -> Times] : k \in 1 .. n}

RECURSIVE Upstreams(_)
Upstreams(n) ==
    {<< >>} \cup UNION {{<< b >> \o u : u \in Upstreams(n - Len(b))} : b \in Batches(n)}

DateInputs == {None} \cup {Some(Iso(t)) : t \in Times}

Requests(limits, sorts, dates) ==
    [limit : limits, sort_order : sorts, start_date : dates, end_date : dates]

InitRequest(upstreams, tails, requests) ==
    /\ pages \in upstreams
    /\ tail \in tails
    /\ req \in requests
    /\ pc = "request"
    /\ validated_limit = 0
    /\ start_date = None
    /\ end_date = None
    /\ skip = 0
    /\ all_matching_comments = << >>
    /\ batch_comments = << >>
    /\ branch = "none"
    /\ calls = << >>
    /\ scored = << >>
    /\ comments_with_sentiment = << >>
    /\ error = ""
    /\ response = NoResponse
    /\ processed_comments = << >>
    /\ info_calls = 0
    /\ now = 0
    /\ cache = EmptyCache
    /\ last = NoCall
    /\ IdleClient
    /\ IdleBoundary

(* The client as configured by default *)
InitWith(upstreams, tails, requests) ==
    /\ InitRequest(upstreams, tails, requests)
    /\ max_retries = feddit_max_retries

(* Finite upstreams: the pages, then empty batches. *)
Init ==
    InitWith(Upstreams(MaxTotal), {<< >>},
             Requests({Some(l) : l \in 1 .. MaxLimit}, {None, Some("desc")}, DateInputs))

Spec == Init /\ [][Next]_vars

(* Upstreams that serve the same non-empty batch at every offset. *)
InitLong ==
    InitWith({<< >>}, Batches(MaxTailLen),
             Requests({Some(l) : l \in 1 .. MaxLimit}, {None}, DateInputs))

SpecLong == InitLong /\ [][Next]_vars

(* Every kind of argument, against a small upstream. *)
SortInputs == {None} \cup {Some(s) : s \in {"asc", "desc", "ASC", "Desc", "None", "invalid", ""}}

LimitInputs == {None} \cup {Some(l) : l \in (0 - MinLimitInput) .. MaxLimitInput}

InitArgs ==
    InitWith({<< >>, << << 1, 2, 3 >> >>}, {<< >>},
             Requests(LimitInputs, SortInputs,
                      {None, Some(EmptyString), Some(Garbage), Some(Iso(2))}))

SpecArgs == InitArgs /\ [][Next]_vars

(* The sort, on every short batch of texts: the state after a fast-path    *)
(* fetch that returned the batch.                                          *)
TextBatches == UNION {[1 .. k -> 1 .. Len(Texts)] : k \in 0 .. MaxSortLen}

BatchOfTexts(ts) ==
    [i \in 1 .. Len(ts) |-> [id |-> i, text |-> Texts[ts[i]], created_at |-> 1]]

InitSort ==
    /\ now = 0
    /\ \E ts \in TextBatches, sort_order \in {None, Some("asc"), Some("desc")} :
            LET base_comments == BatchOfTexts(ts)
                analyzed == ScoreFrom(base_comments, EmptyCache)
            IN  /\ pages = IF ts = << >> THEN << >> ELSE << [i \in 1 .. Len(ts) |-> 1] >>
                /\ req = [limit |-> None, sort_order |-> sort_order,
                          start_date |-> None, end_date |-> None]
                /\ batch_comments = base_comments
                /\ scored = TextsOf(base_comments)
                /\ comments_with_sentiment = analyzed.comments
                /\ cache = analyzed.cache
    /\ tail = << >>
    /\ pc = "fetched"
    /\ validated_limit = default_comment_limit
    /\ start_date = None
    /\ end_date = None
    /\ skip = 0
    /\ all_matching_comments = << >>
    /\ branch = "none"
    /\ calls = << [skip |-> 0, limit |-> default_comment_limit, outcome |-> "ok"] >>
    /\ error = ""
    /\ response = NoResponse
    /\ processed_comments = << >>
    /\ info_calls = 0
    /\ last = NoCall
    /\ max_retries = feddit_max_retries
    /\ IdleBoundary
    /\ IdleClient

NextSort == Respond \/ InfoReturn

SpecSort == InitSort /\ [][NextSort]_vars

----------------------------------------------------------------------------
(* The scorer and the cache on their own, under a clock that advances.     *)

MaxNow == cache_ttl_seconds + MaxLate

TickSteps == {1, cache_ttl_seconds}

(* No request in progress: the shared cache is empty at start-up. *)
InitScorer ==
    InitWith({<< >>}, {<< >>}, Requests({None}, {None}, {None}))

(* time.time() advances between two calls: by a second, at most MaxLate    *)
(* times in a row, or by a whole TTL                                       *)
Tick ==
    /\ \E d \in TickSteps :
            /\ now + d <= MaxNow
            /\ d = 1 => now % cache_ttl_seconds < MaxLate
            /\ now' = now + d
    /\ last' = [op |-> "tick"]
    /\ UNCHANGED << boundary_vars, cache, service_vars, client_vars >>

(* one call of analyze_text *)
AnalyzeText ==
    /\ \E text \in {Texts[i] : i \in 1 .. Len(Texts)} :
            LET r == analyze_text(cache, text)
            IN  /\ cache' = r.cache
                /\ last' = [op |-> "analyze_text", text |-> text, raised |-> r.raised,
                            result |-> r.result, invoked |-> r.invoked]
    /\ UNCHANGED << boundary_vars, now, service_vars, client_vars >>

NextScorer == AnalyzeText \/ Tick

SpecScorer == InitScorer /\ [][NextScorer]_vars

(* The cache under direct get and set calls. *)
Keys == {"k1", "k2"}

Values == {"a", "b"}

TtlInputs == {None, Some(0), Some(1)}

CacheGet ==
    /\ \E key \in Keys :
            LET g == cache_get(cache, key)
            IN  /\ cache' = g.cache
                /\ last' = [op |-> "get", key |-> key, value |-> g.value,
                            found |-> key \in DOMAIN cache]
    /\ UNCHANGED << boundary_vars, now, service_vars, client_vars >>

CacheSet ==
    /\ \E key \in Keys, value \in Values, ttl \in TtlInputs :
            /\ cache' = cache_set(cache, key, value, ttl)
            /\ last' = [op |-> "set", key |-> key, value |-> value, ttl |-> ttl]
    /\ UNCHANGED << boundary_vars, now, service_vars, client_vars >>

NextCache == CacheGet \/ CacheSet \/ Tick

SpecCache == InitScorer /\ [][NextCache]_vars

----------------------------------------------------------------------------
(* The Feddit client: _make_request and its two callers, cut at the awaits *)
(* (the HTTP request, the backoff sleep).  A response body is named by the *)
(* attempt that received it; 0 names the empty list.                       *)

Endpoints == {"/api/v1/subfeddits/", "/api/v1/comments/"}

(* An attempt returns a 2xx response with a JSON body, or raises           *)
(* httpx.HTTPStatusError, httpx.RequestError, or something else (a body    *)
(* that is not JSON).                                                      *)
AttemptOutcomes == {"ok", "HTTPStatusError", "RequestError", "ValueError"}

RetriedErrors == {"HTTPStatusError", "RequestError"}

MayRetry_Inclusive(retries_) == retries_ <= max_retries

MayRetry(retries_) == retries_ < max_retries

backoff_Doubled(retries_) == 2 * (retries_ + 1)

backoff(retries_) == 2 ^ retries_

(* get_comments after its comments request: FedditAPIError is raised again *)
get_comments_Swallowing(result) ==
    IF result.raised = "FedditAPIError" THEN Returned(0) ELSE result

get_comments_after_request(result) == result

get_subfeddits_Raising(result) ==
    IF result.raised = ""
    THEN [result |-> Returned(result.value), cache |-> Some(result.value)]
    ELSE [result |-> result, cache |-> subfeddits_cache]

(* _get_subfeddits after its request: the list that is returned and the    *)
(* cache that is left                                                      *)
get_subfeddits_after_request(result) ==
    IF result.raised = ""
    THEN [result |-> Returned(result.value), cache |-> Some(result.value)]
    ELSE IF result.raised = "FedditAPIError"
    THEN [result |-> Returned(IF IsNone(subfeddits_cache) THEN 0
                              ELSE Val(subfeddits_cache)),
          cache |-> subfeddits_cache]
    ELSE [result |-> result, cache |-> subfeddits_cache]

(* Every configured maximum up to the default, no request made yet *)
InitClient ==
    /\ InitRequest({<< >>}, {<< >>}, Requests({None}, {None}, {None}))
    /\ max_retries \in 0 .. feddit_max_retries

(* a caller enters _make_request with retries = 0 *)
MakeRequest ==
    /\ cpc \in {"idle", "returned"}
    /\ endpoint' \in Endpoints
    /\ retries' = 0
    /\ attempts' = << >>
    /\ sleeps' = << >>
    /\ cpc' = "attempt"
    /\ request_result' = Returned(0)
    /\ caller_result' = Returned(0)
    /\ UNCHANGED << boundary_vars, max_retries, subfeddits_cache, lookup_vars, service_vars,
                    scorer_vars >>

(* client.request, raise_for_status and response.json() of one attempt,    *)
(* and the handler of what they raise, up to its sleep                     *)
Attempt ==
    /\ cpc = "attempt"
    /\ \E outcome \in AttemptOutcomes :
            /\ attempts' = Append(attempts, outcome)
            /\ IF outcome = "ok"
               THEN /\ request_result' = Returned(Len(attempts) + 1)
                    /\ cpc' = "finished"
               ELSE IF outcome \in RetriedErrors
               THEN IF MayRetry(retries)
                    THEN /\ cpc' = "sleep"
                         /\ UNCHANGED request_result
                    ELSE /\ request_result' = Raised("FedditAPIError")
                         /\ cpc' = "finished"
               ELSE /\ request_result' = Raised(outcome)
                    /\ cpc' = "finished"
    /\ UNCHANGED << boundary_vars, max_retries, subfeddits_cache, endpoint, retries, sleeps,
                    caller_result, lookup_vars, service_vars, scorer_vars >>

(* asyncio.sleep(2**retries) returns: the recursive call with retries + 1 *)
Backoff ==
    /\ cpc = "sleep"
    /\ sleeps' = Append(sleeps, backoff(retries))
    /\ retries' = retries + 1
    /\ cpc' = "attempt"
    /\ UNCHANGED << boundary_vars, max_retries, subfeddits_cache, endpoint, attempts, request_result,
                    caller_result, lookup_vars, service_vars, scorer_vars >>

(* _make_request is back in get_comments or in _get_subfeddits *)
CallerReturn ==
    /\ cpc = "finished"
    /\ IF endpoint = "/api/v1/comments/"
       THEN /\ caller_result' = get_comments_after_request(request_result)
            /\ UNCHANGED subfeddits_cache
       ELSE /\ caller_result' = get_subfeddits_after_request(request_result).result
            /\ subfeddits_cache' = get_subfeddits_after_request(request_result).cache
    /\ cpc' = "returned"
    /\ UNCHANGED << boundary_vars, max_retries, endpoint, retries, attempts, sleeps, request_result,
                    lookup_vars, service_vars, scorer_vars >>

NextClient == MakeRequest \/ Attempt \/ Backoff \/ CallerReturn

SpecClient == InitClient /\ [][NextClient]_vars

----------------------------------------------------------------------------
(* The subfeddit list and the lookup caches of the client.  A logical      *)
(* request (_make_request with its retries) is one step here.  The list    *)
(* that a response carries is named by its number in SubfedditLists; 0     *)
(* names the empty list.  Time is in seconds.                              *)

client_cache_ttl == cache_ttl_minutes * 60

SubfedditLists ==
    << << [id |-> 1, title |-> "Tech"] >>,
       << [id |-> 1, title |-> "Tech"], [id |-> 2, title |-> "News"] >>,
       << [id |-> 3, title |-> "Technology"], [id |-> 4, title |-> ""] >> >>

ListOf(v) == IF v = 0 THEN << >> ELSE SubfedditLists[v]

Names == {"TECH", "news", "missing"}

MaxClientNow == client_cache_ttl - 1 + MaxLate

is_cache_valid_Inclusive ==
    /\ ~IsNone(cache_timestamp)
    /\ ~IsNone(subfeddits_cache)
    /\ now - Val(cache_timestamp) <= client_cache_ttl

is_cache_valid ==
    /\ ~IsNone(cache_timestamp)
    /\ ~IsNone(subfeddits_cache)
    /\ now - Val(cache_timestamp) < client_cache_ttl

SubfedditInfo(subfeddit) == [id |-> subfeddit.id, title |-> subfeddit.title]

(* __update_lookup_caches: both maps are cleared and filled from the list, *)
(* an entry with an empty title left out, a later entry overriding         *)
RECURSIVE update_lookup_caches(_)
update_lookup_caches(subfeddits) ==
    IF subfeddits = << >> THEN [ids |-> << >>, infos |-> << >>]
    ELSE LET before == update_lookup_caches(SubSeq(subfeddits, 1, Len(subfeddits) - 1))
             subfeddit == subfeddits[Len(subfeddits)]
             title == Lower(subfeddit.title)
         IN  IF title = "" THEN before
             ELSE [ids |-> (title :> subfeddit.id) @@ before.ids,
                   infos |-> (title :> SubfedditInfo(subfeddit)) @@ before.infos]

(* dict.get *)
MapGet(map, key) == IF key \in DOMAIN map THEN Some(map[key]) ELSE None

(* What the list request of _get_subfeddits can do: return the upstream's  *)
(* list, raise FedditAPIError (retries exhausted), raise something else.   *)
ListOutcomes == {"ok", "FedditAPIError", "ValueError"}

get_subfeddits_response_Stamping(outcome) ==
    LET result == IF outcome = "ok" THEN Returned(upstream_subfeddits)
                  ELSE Raised(outcome)
        after == get_subfeddits_after_request(result)
        caches == update_lookup_caches(ListOf(result.value))
    IN  [result |-> after.result,
         cache |-> after.cache,
         timestamp |-> Some(now),
         ids |-> IF outcome = "ok" THEN caches.ids ELSE name_to_id_cache,
         infos |-> IF outcome = "ok" THEN caches.infos ELSE name_to_info_cache]

(* _get_subfeddits from the return of its request: its result and the      *)
(* caches it leaves                                                        *)
get_subfeddits_response(outcome) ==
    LET result == IF outcome = "ok" THEN Returned(upstream_subfeddits)
                  ELSE Raised(outcome)
        after == get_subfeddits_after_request(result)
        caches == update_lookup_caches(ListOf(result.value))
    IN  [result |-> after.result,
         cache |-> after.cache,
         timestamp |-> IF outcome = "ok" THEN Some(now) ELSE cache_timestamp,
         ids |-> IF outcome = "ok" THEN caches.ids ELSE name_to_id_cache,
         infos |-> IF outcome = "ok" THEN caches.infos ELSE name_to_info_cache]

ListRequest == [endpoint |-> "/api/v1/subfeddits/"]

CommentsRequest(subfeddit_id, skip_, limit_) ==
    [endpoint |-> "/api/v1/comments/", subfeddit_id |-> subfeddit_id,
     skip |-> skip_, limit |-> limit_]

(* Whether a lookup miss goes to the upstream: _get_subfeddits answers     *)
(* from the list cache while that is valid                                 *)
RefreshOnMiss == ~is_cache_valid

(* The name is looked up in the lookup cache: an exact match of the        *)
(* lower-cased name with a lower-cased title                               *)
Resolve_Prefix(map, name) ==
    IF Lower(name) \in DOMAIN map THEN Some(map[Lower(name)])
    ELSE IF Lower(name) = "tech" /\ "technology" \in DOMAIN map
    THEN Some(map["technology"])
    ELSE None

Resolve(map, name) == MapGet(map, Lower(name))

(* get_subfeddit_info and get_comments once the lookup is settled, with    *)
(* the maps as they are then                                               *)
AfterLookup(call, ids, infos) ==
    IF call.op = "get_subfeddit_info"
    THEN [call EXCEPT !.pc = "returned", !.info = Resolve(infos, call.name)]
    ELSE IF IsNone(Resolve(ids, call.name))
    THEN [call EXCEPT !.pc = "returned", !.result = Raised("FedditAPIError"),
                      !.message = "not found"]
    ELSE [call EXCEPT !.pc = "comments",
                      !.requests = Append(call.requests,
                            CommentsRequest(Val(Resolve(ids, call.name)),
                                            call.skip, call.limit))]

LookupOps == {"_get_subfeddits", "get_subfeddit_info", "get_comments"}

(* a call of the client, up to its first request *)
StartCall(op, name, skip_, limit_) ==
    LET call == [op |-> op, name |-> name, skip |-> skip_, limit |-> limit_,
                 pc |-> "list", requests |-> << >>, outcomes |-> << >>,
                 result |-> Returned(0), info |-> None, message |-> ""]
        refreshing == [call EXCEPT !.requests = << ListRequest >>]
    IN  IF op = "_get_subfeddits"
        THEN IF is_cache_valid
             THEN [call EXCEPT !.pc = "returned",
                               !.result = Returned(Val(subfeddits_cache))]
             ELSE refreshing
        ELSE IF is_cache_valid
                /\ ~IsNone(Resolve(IF op = "get_comments" THEN name_to_id_cache
                                   ELSE name_to_info_cache, name))
        THEN AfterLookup(call, name_to_id_cache, name_to_info_cache)
        ELSE IF RefreshOnMiss
        THEN refreshing
        ELSE AfterLookup(call, name_to_id_cache, name_to_info_cache)

LookupCall ==
    /\ lookup.pc \in {"idle", "returned"}
    /\ \E op \in LookupOps, skip_ \in {0, batch_size} :
        \E name \in IF op = "_get_subfeddits" THEN {""} ELSE Names :
            lookup' = StartCall(op, name,
                                IF op = "get_comments" THEN skip_ ELSE 0,
                                IF op = "get_comments" THEN batch_size ELSE 0)
    /\ UNCHANGED << boundary_vars, max_retries, subfeddits_cache, request_vars, cache_timestamp,
                    name_to_id_cache, name_to_info_cache, upstream_subfeddits,
                    service_vars, scorer_vars >>

(* get_subfeddit_info and _get_subfeddit_id_by_name after _get_subfeddits: *)
(* an exception of the refresh is caught and the lookup gives None         *)
LookupAfterRefresh_Propagating(call, r) ==
    IF r.result.raised # ""
    THEN [call EXCEPT !.pc = "returned", !.result = r.result]
    ELSE AfterLookup(call, r.ids, r.infos)

LookupAfterRefresh(call, r) ==
    IF r.result.raised # ""
    THEN AfterLookup(call, << >>, << >>)
    ELSE AfterLookup(call, r.ids, r.infos)

(* the list request returns into _get_subfeddits, and that into its caller *)
ListResponse ==
    /\ lookup.pc = "list"
    /\ \E outcome \in ListOutcomes :
            LET r == get_subfeddits_response(outcome)
                answered == [lookup EXCEPT !.outcomes = Append(lookup.outcomes, outcome)]
            IN  /\ subfeddits_cache' = r.cache
                /\ cache_timestamp' = r.timestamp
                /\ name_to_id_cache' = r.ids
                /\ name_to_info_cache' = r.infos
                /\ lookup' =
                        IF lookup.op = "_get_subfeddits"
                        THEN [answered EXCEPT !.pc = "returned", !.result = r.result]
                        ELSE LookupAfterRefresh(answered, r)
    /\ UNCHANGED << boundary_vars, max_retries, request_vars, upstream_subfeddits, service_vars,
                    scorer_vars >>

(* the comments request returns into get_comments *)
CommentsResponse ==
    /\ lookup.pc = "comments"
    /\ \E outcome \in Outcomes :
            lookup' = [lookup EXCEPT
                          !.pc = "returned",
                          !.outcomes = Append(lookup.outcomes, outcome),
                          !.result = get_comments_after_request(
                                        IF outcome = "ok" THEN Returned(lookup.skip)
                                        ELSE Raised(outcome))]
    /\ UNCHANGED << boundary_vars, max_retries, subfeddits_cache, request_vars, cache_timestamp,
                    name_to_id_cache, name_to_info_cache, upstream_subfeddits,
                    service_vars, scorer_vars >>

(* datetime.now() advances, also while a request is in flight: by a second, *)
(* at most MaxLate times in a row, or to a second before the TTL           *)
TickClient ==
    /\ \E d \in {1, client_cache_ttl - 1} :
            /\ now + d <= MaxClientNow
            /\ d = 1 => now % (client_cache_ttl - 1) < MaxLate
            /\ now' = now + d
    /\ UNCHANGED << boundary_vars, cache, last, service_vars, client_vars >>

(* subfeddits are created and removed upstream *)
UpstreamChange ==
    /\ upstream_subfeddits' \in (0 .. Len(SubfedditLists)) \ {upstream_subfeddits}
    /\ UNCHANGED << boundary_vars, max_retries, subfeddits_cache, request_vars, cache_timestamp,
                    name_to_id_cache, name_to_info_cache, lookup, service_vars,
                    scorer_vars >>

NextLookup == LookupCall \/ ListResponse \/ CommentsResponse \/ TickClient
                \/ UpstreamChange

SpecLookup == InitScorer /\ [][NextLookup]_vars

----------------------------------------------------------------------------
(* The metadata lookup of a request, through the client: the request is    *)
(* for the subfeddit "TECH", its fast-path get_comments call has resolved  *)
(* the name from a fresh list and has returned.                            *)

InitInfo ==
    /\ now = 0
    /\ \E ts \in {<< >>, << 1, 4 >>}, sort_order \in {None, Some("desc")} :
            LET base_comments == BatchOfTexts(ts)
                analyzed == ScoreFrom(base_comments, EmptyCache)
            IN  /\ pages = IF ts = << >> THEN << >> ELSE << [i \in 1 .. Len(ts) |-> 1] >>
                /\ req = [limit |-> None, sort_order |-> sort_order,
                          start_date |-> None, end_date |-> None]
                /\ batch_comments = base_comments
                /\ scored = TextsOf(base_comments)
                /\ comments_with_sentiment = analyzed.comments
                /\ cache = analyzed.cache
    /\ tail = << >>
    /\ pc = "fetched"
    /\ validated_limit = default_comment_limit
    /\ start_date = None
    /\ end_date = None
    /\ skip = 0
    /\ all_matching_comments = << >>
    /\ branch = "none"
    /\ calls = << [skip |-> 0, limit |-> default_comment_limit, outcome |-> "ok"] >>
    /\ error = ""
    /\ response = NoResponse
    /\ processed_comments = << >>
    /\ info_calls = 0
    /\ last = NoCall
    /\ max_retries = feddit_max_retries
    /\ IdleBoundary
    /\ endpoint = ""
    /\ retries = 0
    /\ attempts = << >>
    /\ sleeps = << >>
    /\ cpc = "idle"
    /\ request_result = Returned(0)
    /\ caller_result = Returned(0)
    /\ \E v \in {1, 2} :
            /\ upstream_subfeddits = v
            /\ subfeddits_cache = Some(v)
            /\ cache_timestamp = Some(0)
            /\ name_to_id_cache = update_lookup_caches(ListOf(v)).ids
            /\ name_to_info_cache = update_lookup_caches(ListOf(v)).infos
    /\ lookup = [NoLookup EXCEPT
                    !.op = "get_comments", !.name = "TECH",
                    !.limit = default_comment_limit, !.pc = "returned",
                    !.requests = << ListRequest,
                                   CommentsRequest(1, 0, default_comment_limit) >>,
                    !.outcomes = << "ok", "ok" >>]

(* get_subfeddit_info(subfeddit_name) is entered *)
InfoCall ==
    /\ pc = "info"
    /\ lookup.op = "get_comments"
    /\ lookup.pc = "returned"
    /\ lookup' = StartCall("get_subfeddit_info", lookup.name, 0, 0)
    /\ UNCHANGED << boundary_vars, max_retries, subfeddits_cache, request_vars, cache_timestamp,
                    name_to_id_cache, name_to_info_cache, upstream_subfeddits,
                    service_vars, scorer_vars >>

(* get_subfeddit_info is back in analyze_subfeddit_sentiment *)
InfoReturnClient ==
    /\ pc = "info"
    /\ lookup.op = "get_subfeddit_info"
    /\ lookup.pc = "returned"
    /\ IF lookup.result.raised # ""
       THEN /\ pc' = "raised"
            /\ error' = lookup.result.raised
            /\ UNCHANGED response
       ELSE /\ pc' = "done"
            /\ error' = error
            /\ response' = [total_comments |-> TotalComments(processed_comments),
                            comments |-> processed_comments,
                            subfeddit_info |-> lookup.info, sent |-> TRUE]
    /\ UNCHANGED << boundary_vars, pages, tail, req, validated_limit, start_date, end_date, skip,
                    all_matching_comments, batch_comments, branch, calls, scored,
                    comments_with_sentiment, processed_comments, info_calls,
                    scorer_vars, client_vars >>

NextInfo == Respond \/ InfoCall \/ ListResponse \/ InfoReturnClient \/ TickClient
              \/ UpstreamChange

SpecInfo == InitInfo /\ [][NextInfo]_vars

----------------------------------------------------------------------------
(* Vocabulary of the properties *)

Windowed == ~IsNone(start_date) \/ ~IsNone(end_date)

Fetched == pc \in {"fetched", "info", "done"}

InWindow(t) ==
    /\ (IsNone(start_date) \/ Val(start_date) <= t)
    /\ (IsNone(end_date) \/ t <= Val(end_date))

InWindowOf(comments) == SelectSeq(comments, LAMBDA c : InWindow(c.created_at))

Take(comments, n) == SubSeq(comments, 1, Min(n, Len(comments)))

Unscored(comments) ==
    [i \in 1 .. Len(comments) |->
        [id |-> comments[i].id, text |-> comments[i].text,
         created_at |-> comments[i].created_at]]

RECURSIVE FirstPages(_)
FirstPages(k) ==
    IF k = 0 THEN << >>
    ELSE FirstPages(k - 1) \o get_comments((k - 1) * batch_size, batch_size)

WholeUpstream == FirstPages(Len(pages))

Monotone(comments) ==
    \A i \in 1 .. Len(comments) - 1 : comments[i].created_at <= comments[i + 1].created_at

AllCallsOk == \A i \in 1 .. Len(calls) : calls[i].outcome = "ok"

FirstBatch == get_comments(0, batch_size)

ThisBatch == get_comments(skip, batch_size)

Fetching(outcome) ==
    /\ pc = "loop"
    /\ Len(calls') = Len(calls) + 1
    /\ calls'[Len(calls')].outcome = outcome

----------------------------------------------------------------------------
(* C1: a windowed query issues at most ceil(10000/100)+1 = 101 batch        *)
(* fetches and never fetches at an offset above 10000, whatever the         *)
(* upstream serves.                                                         *)
C1_FetchesBounded ==
    /\ Len(calls) <= (safety_limit \div batch_size) + 1
    /\ \A i \in 1 .. Len(calls) : calls[i].skip <= safety_limit

(* C2: every comment a windowed query returns lies in the window, an unset  *)
(* bound imposing nothing, also for a partial result after a failure.       *)
C2_ResultInWindow ==
    (Windowed /\ Fetched) =>
        /\ \A i \in 1 .. Len(comments_with_sentiment) :
                InWindow(comments_with_sentiment[i].created_at)
        /\ \A i \in 1 .. Len(response.comments) :
                InWindow(response.comments[i].created_at)

C2_Witness ==
    /\ pc = "done"
    /\ branch = "partial"
    /\ response.comments # << >>
    /\ \E i \in 1 .. Len(batch_comments) : ~InWindow(batch_comments[i].created_at)

(* C3: with an upstream in non-decreasing time order that never fails, the  *)
(* windowed query returns the first min(limit, matches) in-window comments  *)
(* of the whole upstream sequence, in upstream order.                       *)
C3_EqualsReference ==
    (Windowed /\ Fetched /\ AllCallsOk /\ Monotone(WholeUpstream)) =>
        Unscored(comments_with_sentiment)
            = Take(InWindowOf(WholeUpstream), validated_limit)

C3_Witness ==
    /\ Windowed /\ Fetched /\ AllCallsOk /\ Monotone(WholeUpstream)
    /\ Len(calls) >= 2
    /\ calls[1].skip # calls[2].skip
    /\ Len(comments_with_sentiment) = validated_limit
    /\ Len(InWindowOf(WholeUpstream)) > validated_limit
    /\ Len(InWindowOf(WholeUpstream)) < Len(WholeUpstream)

(* C4: an upstream failure in the windowed loop ends the query: with        *)
(* matches accumulated they are returned (truncated, scored) and nothing is *)
(* raised; with none accumulated the failure reaches the caller.            *)
C4_FailureHandling ==
    (Windowed /\ calls # << >> /\ calls[Len(calls)].outcome = "FedditAPIError") =>
        IF all_matching_comments # << >>
        THEN /\ Fetched
             /\ error = ""
             /\ Unscored(comments_with_sentiment)
                    = Take(all_matching_comments, validated_limit)
        ELSE /\ pc = "raised"
             /\ error = "FedditAPIError"

C4_Witness ==
    /\ Windowed /\ pc = "done"
    /\ Len(calls) >= 3
    /\ calls[Len(calls)].outcome = "FedditAPIError"
    /\ response.total_comments >= 1

C4_WitnessRaise ==
    /\ Windowed /\ pc = "raised"
    /\ Len(calls) >= 3
    /\ calls[Len(calls)].outcome = "FedditAPIError"
    /\ \E i \in 1 .. Len(calls) - 1 : calls[i].skip = calls[i + 1].skip - batch_size

(* C5, as claimed: no batch is fetched once the accumulator holds limit     *)
(* matches; and a first batch with at least limit in-window comments means  *)
(* exactly one fetch, returning the first limit of them in order.           *)
C5_Original ==
    /\ pc = "loop" => Len(all_matching_comments) < validated_limit
    /\ ( /\ Windowed /\ calls # << >> /\ calls[1].outcome = "ok"
         /\ Len(InWindowOf(FirstBatch)) >= validated_limit ) =>
            /\ Len(calls) = 1
            /\ Fetched
            /\ Unscored(comments_with_sentiment)
                    = Take(InWindowOf(FirstBatch), validated_limit)

(* C5, amended: the same, for a first batch that is neither skipped ahead   *)
(* (its last comment is not before start_date) nor stopped on (its first    *)
(* comment is not after end_date).                                          *)
C5_StopsWhenEnough ==
    /\ pc = "loop" => Len(all_matching_comments) < validated_limit
    /\ ( /\ Windowed /\ calls # << >> /\ calls[1].outcome = "ok"
         /\ Len(InWindowOf(FirstBatch)) >= validated_limit
         /\ (IsNone(start_date)
                \/ FirstBatch[Len(FirstBatch)].created_at >= Val(start_date))
         /\ (IsNone(end_date) \/ FirstBatch[1].created_at <= Val(end_date)) ) =>
            /\ Len(calls) = 1
            /\ Fetched
            /\ Unscored(comments_with_sentiment)
                    = Take(InWindowOf(FirstBatch), validated_limit)

C5_Witness ==
    /\ Windowed /\ pc = "done"
    /\ Len(calls) = 1 /\ calls[1].outcome = "ok"
    /\ Len(pages) > 1
    /\ Len(InWindowOf(FirstBatch)) > validated_limit
    /\ response.total_comments = validated_limit

(* C6: a non-empty batch whose last comment is before start_date adds       *)
(* nothing to the accumulator and moves the offset on by 100, also when its *)
(* first comment is after end_date; every fetch is issued at the current    *)
(* offset with limit 100.                                                   *)
C6_SkipAhead ==
    [][ /\ ( /\ Fetching("ok")
             /\ ThisBatch # << >>
             /\ ~IsNone(start_date)
             /\ ThisBatch[Len(ThisBatch)].created_at < Val(start_date) ) =>
                /\ all_matching_comments' = all_matching_comments
                /\ skip' = skip + batch_size
                /\ pc' = "loop"
        /\ (pc = "loop" /\ calls' # calls) =>
                calls' = Append(calls, [skip |-> skip, limit |-> batch_size,
                                        outcome |-> calls'[Len(calls')].outcome])
      ]_vars

C6_Witness ==
    /\ Len(calls) >= 2
    /\ calls[1].outcome = "ok"
    /\ ~IsNone(start_date) /\ ~IsNone(end_date)
    /\ FirstBatch # << >>
    /\ FirstBatch[Len(FirstBatch)].created_at < Val(start_date)
    /\ FirstBatch[1].created_at > Val(end_date)
    /\ calls[2].skip = batch_size
    /\ all_matching_comments # << >>

(* C7: a batch that is not skipped ahead and whose first comment is after   *)
(* end_date ends the loop: it adds nothing to the accumulator, the result   *)
(* is the accumulator so far, and no further batch is fetched.              *)
C7_StopAtEndDate ==
    [][ /\ ( /\ Fetching("ok")
             /\ ThisBatch # << >>
             /\ ~(~IsNone(start_date)
                    /\ ThisBatch[Len(ThisBatch)].created_at < Val(start_date))
             /\ ~IsNone(end_date)
             /\ ThisBatch[1].created_at > Val(end_date) ) =>
                /\ all_matching_comments' = all_matching_comments
                /\ pc' = "fetched"
                /\ Unscored(comments_with_sentiment')
                        = Take(all_matching_comments, validated_limit)
        /\ pc \in {"fetched", "info", "done", "raised"} => calls' = calls
      ]_vars

C7_Witness ==
    /\ pc = "done"
    /\ branch = "after_end"
    /\ response.total_comments >= 1
    /\ \E i \in 1 .. Len(batch_comments) : InWindow(batch_comments[i].created_at)

(* Arguments, restated *)

LimitOk == IsNone(req.limit) \/ Val(req.limit) >= 1

SortOrderOk == IsNone(req.sort_order) \/ Val(req.sort_order) \in {"asc", "desc"}

DateStringOk(s) == IsNone(s) \/ Val(s).kind \in {"empty", "iso"}

DatesOk == DateStringOk(req.start_date) /\ DateStringOk(req.end_date)

ExpectedLimit ==
    IF IsNone(req.limit) THEN default_comment_limit
    ELSE Min(Val(req.limit), max_comment_limit)

(* C8: without a date window exactly one get_comments call is made, with    *)
(* skip 0 and the validated limit; an empty batch gives an empty result     *)
(* with nothing scored and nothing raised; a failure of the call always     *)
(* reaches the caller.                                                      *)
C8_FastPath ==
    /\ pc = "fast" => calls = << >>
    /\ (~Windowed /\ calls # << >>) =>
        /\ Len(calls) = 1
        /\ calls[1].skip = 0
        /\ calls[1].limit = ExpectedLimit
        /\ calls[1].outcome # "ok" => (pc = "raised" /\ error = calls[1].outcome)
        /\ calls[1].outcome = "ok" => (Fetched /\ error = "")
        /\ (calls[1].outcome = "ok" /\ UpstreamPage(1) = << >>) =>
                /\ comments_with_sentiment = << >>
                /\ scored = << >>
                /\ pc = "done" => (response.total_comments = 0
                                    /\ response.comments = << >>)

C8_Witness ==
    /\ ~Windowed /\ pc = "done"
    /\ calls[1].outcome = "ok"
    /\ UpstreamPage(1) = << >>
    /\ ~IsNone(req.limit) /\ Val(req.limit) > max_comment_limit
    /\ response.total_comments = 0

(* C9: a limit <= 0 fails validation with a ValueError; a limit above the   *)
(* maximum becomes the maximum, a limit in 1..maximum is kept, an absent    *)
(* limit becomes the default; the validated limit is always in 1..maximum.  *)
C9_LimitValidation ==
    pc # "request" =>
        /\ ~LimitOk => (pc = "raised" /\ error = "ValueError" /\ calls = << >>)
        /\ (LimitOk /\ SortOrderOk) =>
                validated_limit = (IF IsNone(req.limit) THEN default_comment_limit
                                   ELSE IF Val(req.limit) > max_comment_limit
                                        THEN max_comment_limit
                                        ELSE Val(req.limit))
        /\ (LimitOk /\ SortOrderOk /\ DatesOk) => error # "ValueError"
        /\ pc # "raised" => validated_limit \in 1 .. max_comment_limit

C9_Witness ==
    /\ pc = "done"
    /\ ~IsNone(req.limit) /\ Val(req.limit) > max_comment_limit
    /\ validated_limit = max_comment_limit
    /\ calls[1].limit = max_comment_limit

(* C10: a sort_order that is present and is not exactly "asc" or "desc"     *)
(* fails validation with a ValueError; "asc", "desc" and an absent          *)
(* sort_order pass, and an absent one leaves the comments unsorted.         *)
C10_SortOrderValidation ==
    pc # "request" =>
        /\ ~SortOrderOk => (pc = "raised" /\ error = "ValueError" /\ calls = << >>)
        /\ (SortOrderOk /\ LimitOk /\ DatesOk) => error # "ValueError"
        /\ (IsNone(req.sort_order) /\ pc = "done") =>
                response.comments = comments_with_sentiment

C10_Witness ==
    /\ pc = "raised" /\ error = "ValueError"
    /\ LimitOk /\ DatesOk
    /\ req.sort_order = Some("None")

----------------------------------------------------------------------------
(* C11: validation and date parsing precede every upstream interaction: a  *)
(* request with a bad limit, a bad sort_order or a date string that does   *)
(* not parse has issued no get_comments call (the only place where the     *)
(* subfeddit list is requested), no metadata lookup and no scoring, has    *)
(* left the shared cache as it was, and ends in a ValueError with no       *)
(* response.                                                               *)
C11_ValidationFirst ==
    /\ ~(LimitOk /\ SortOrderOk /\ DatesOk) =>
            /\ calls = << >>
            /\ info_calls = 0
            /\ scored = << >>
            /\ cache = EmptyCache
            /\ response = NoResponse
            /\ pc \in {"request", "raised"}
    /\ (pc = "raised" /\ ~(LimitOk /\ SortOrderOk /\ DatesOk)) => error = "ValueError"
    /\ (pc \notin {"request", "raised"}) => LimitOk /\ SortOrderOk /\ DatesOk

C11_Witness ==
    /\ pc = "raised"
    /\ error = "ValueError"
    /\ LimitOk
    /\ SortOrderOk
    /\ ~DatesOk
    /\ Len(pages) > 0
    /\ calls = << >>

----------------------------------------------------------------------------
(* C12: an empty result of the pagination engine, on the fast or on the    *)
(* windowed path, is answered with count 0, no comments and no subfeddit   *)
(* info, and get_subfeddit_info is never called; a non-empty result calls  *)
(* get_subfeddit_info exactly once, with the comments already sorted, and  *)
(* not before the engine has returned.                                     *)
C12_EmptyShortCircuit ==
    /\ pc \in {"request", "fast", "loop", "fetched", "raised"} => info_calls = 0
    /\ (pc = "done" /\ comments_with_sentiment = << >>) =>
            /\ info_calls = 0
            /\ response = [total_comments |-> 0, comments |-> << >>,
                           subfeddit_info |-> None, sent |-> TRUE]
    /\ (pc \in {"info", "done"} /\ comments_with_sentiment # << >>) =>
            /\ info_calls = 1
            /\ processed_comments = Processed(comments_with_sentiment, req.sort_order)
    /\ (pc = "done" /\ comments_with_sentiment # << >>) =>
            /\ response.sent
            /\ response.comments = processed_comments
            /\ response.subfeddit_info \in SubfedditInfos

(* an empty result on the windowed path, with comments upstream *)
C12_Witness ==
    /\ pc = "done"
    /\ Windowed
    /\ Len(pages) > 0
    /\ comments_with_sentiment = << >>
    /\ response.sent

(* a non-empty result that the sort reordered, the lookup issued *)
C12_WitnessCalled ==
    /\ pc = "info"
    /\ info_calls = 1
    /\ processed_comments # comments_with_sentiment

----------------------------------------------------------------------------
(* C13: the returned comments are a permutation of the engine's result; in *)
(* non-decreasing polarity order for "asc", in non-increasing order for    *)
(* "desc"; comments of equal polarity keep their relative order, for       *)
(* "desc" too; with no sort_order the order is the engine's.               *)
Polarity(comment) == comment.sentiment.polarity_score

PositionIn(seq, comment) == CHOOSE k \in 1 .. Len(seq) : seq[k] = comment

IsPermutation(out, in) ==
    /\ Len(out) = Len(in)
    /\ \A k \in 1 .. Len(in) : \E i \in 1 .. Len(out) : out[i] = in[k]

IsStable(out, in) ==
    \A i, j \in 1 .. Len(out) :
        (i < j /\ Polarity(out[i]) = Polarity(out[j])) =>
            PositionIn(in, out[i]) < PositionIn(in, out[j])

C13_Sorting ==
    (pc \in {"info", "done"} /\ comments_with_sentiment # << >>) =>
        LET in == comments_with_sentiment
            out == processed_comments
        IN  /\ pc = "done" => response.comments = out
            /\ IsNone(req.sort_order) => out = in
            /\ ~IsNone(req.sort_order) =>
                /\ IsPermutation(out, in)
                /\ IsStable(out, in)
                /\ \A i, j \in 1 .. Len(out) :
                        i < j => IF Val(req.sort_order) = "asc"
                                 THEN Polarity(out[i]) <= Polarity(out[j])
                                 ELSE Polarity(out[i]) >= Polarity(out[j])

(* a "desc" sort that moved comments and had a tie to keep in order *)
C13_Witness ==
    /\ pc = "done"
    /\ req.sort_order = Some("desc")
    /\ response.comments # comments_with_sentiment
    /\ \E i, j \in 1 .. Len(comments_with_sentiment) :
            /\ i < j
            /\ comments_with_sentiment[i] # comments_with_sentiment[j]
            /\ Polarity(comments_with_sentiment[i]) = Polarity(comments_with_sentiment[j])

----------------------------------------------------------------------------
(* C14: every response, on every path (empty result, fast path, windowed   *)
(* path, partial result after an upstream failure, sorted or not), has     *)
(* total_comments equal to the length of its comments.                     *)
C14_CountIsLength ==
    response.sent => response.total_comments = Len(response.comments)

(* a partial result after an upstream failure, sorted *)
C14_Witness ==
    /\ response.sent
    /\ branch = "partial"
    /\ ~IsNone(req.sort_order)
    /\ response.total_comments >= 1

(* a windowed result cut to the limit *)
C14_WitnessTruncated ==
    /\ response.sent
    /\ Windowed
    /\ Len(all_matching_comments) > response.total_comments
    /\ response.total_comments >= 1

----------------------------------------------------------------------------
(* C15: the classification of a polarity p is "positive" iff p >= 0 and    *)
(* "negative" otherwise, so 0 is "positive"; every SentimentResult that    *)
(* analyze_text returns or stores, the fallback included, carries one of   *)
(* the two labels, the one of its polarity.  Polarities are in tenths.     *)
Labelled(result) ==
    /\ result.classification \in {"positive", "negative"}
    /\ result.classification = "positive" <=> result.polarity_score >= 0

C15_Classification ==
    /\ \A p \in -10 .. 10 :
            classify_sentiment(p) = IF p >= 0 THEN "positive" ELSE "negative"
    /\ last.op = "analyze_text" => Labelled(last.result)
    /\ \A key \in DOMAIN cache : Labelled(cache[key].value)

(* the black box returned polarity 0 *)
C15_Witness ==
    /\ last.op = "analyze_text"
    /\ last.invoked
    /\ TextBlob(last.text) = Returned(0)
    /\ last.result.classification = "positive"

(* the fallback, and a negative result *)
C15_WitnessFallback ==
    /\ last.op = "analyze_text"
    /\ last.result = FallbackResult
    /\ TextBlob(last.text).raised # ""
    /\ \E key \in DOMAIN cache : cache[key].value.classification = "negative"

----------------------------------------------------------------------------
(* C16: analyze_text is idempotent through the cache.  A stored entry is   *)
(* the score that the storing call returned; a call for a text whose entry *)
(* has not expired returns that entry's score, does not invoke the black   *)
(* box and leaves the cache as it is; a call for a text with no entry or   *)
(* an expired one invokes the black box and, when it succeeds, stores the  *)
(* score with an expiry a full TTL from now.                               *)
Score(text) ==
    [polarity_score |-> TextBlob(text).value,
     classification |-> classify_sentiment(TextBlob(text).value)]

Live(key) == key \in DOMAIN cache /\ now <= cache[key].expiry

C16_StoredIsReturned ==
    /\ \A text \in {Texts[i] : i \in 1 .. Len(Texts)} :
            create_key(text) \in DOMAIN cache =>
                /\ TextBlob(text).raised = ""
                /\ cache[create_key(text)].value = Score(text)
    /\ (last.op = "analyze_text" /\ Live(create_key(last.text))) =>
            last.result = cache[create_key(last.text)].value

C16_CallThroughCache ==
    last'.op = "analyze_text" =>
        LET key == create_key(last'.text)
        IN  IF Live(key)
            THEN /\ last'.result = cache[key].value
                 /\ ~last'.invoked
                 /\ cache' = cache
            ELSE /\ last'.invoked
                 /\ TextBlob(last'.text).raised = "" =>
                        /\ key \in DOMAIN cache'
                        /\ cache'[key] = [value |-> last'.result,
                                          expiry |-> now + cache_ttl_seconds]

C16_Idempotent == []C16_StoredIsReturned /\ [][C16_CallThroughCache]_vars

(* a hit at the very instant of expiry *)
C16_Witness ==
    /\ last.op = "analyze_text"
    /\ ~last.invoked
    /\ now = cache[create_key(last.text)].expiry

(* an expired entry stored again with a fresh TTL *)
C16_WitnessRestored ==
    /\ last.op = "analyze_text"
    /\ last.invoked
    /\ now > cache_ttl_seconds
    /\ create_key(last.text) \in DOMAIN cache
    /\ cache[create_key(last.text)].expiry = now + cache_ttl_seconds

----------------------------------------------------------------------------
(* C17: an exception of the black box does not leave analyze_text, which   *)
(* returns the fallback score (polarity 0, "positive"); so no request ends *)
(* in a scoring exception, and the scored result has one entry for each    *)
(* comment handed to the scorer, in the same order.                        *)
C17_ScoringNeverAborts ==
    /\ error \in {"", "ValueError", "FedditAPIError", "KeyError"}
    /\ pc = "raised" => scored = << >>
    /\ pc \in {"fetched", "info", "done"} =>
            /\ Len(comments_with_sentiment) = Len(scored)
            /\ \A i \in 1 .. Len(scored) :
                    /\ comments_with_sentiment[i].text = scored[i]
                    /\ TextBlob(scored[i]).raised # "" =>
                            comments_with_sentiment[i].sentiment = FallbackResult
                    /\ TextBlob(scored[i]).raised = "" =>
                            comments_with_sentiment[i].sentiment = Score(scored[i])

(* a response with a comment that the black box could not score, among     *)
(* others that it could                                                    *)
C17_Witness ==
    /\ pc = "done"
    /\ response.total_comments >= 2
    /\ \E i \in 1 .. Len(response.comments) :
            /\ TextBlob(response.comments[i].text).raised # ""
            /\ response.comments[i].sentiment = FallbackResult

----------------------------------------------------------------------------
(* C18: lazy expiry of the cache.  Over every sequence of set, get and     *)
(* clock advances: get returns a value only from an entry whose expiry is  *)
(* not earlier than the current time, and then the value of that entry; a  *)
(* get that finds an entry whose expiry is earlier than the current time   *)
(* returns absent and removes that entry and no other; a get of a key that *)
(* has no entry returns absent; an entry appears only by a set of its key  *)
(* and disappears only by such a get, so expired entries that are not read *)
(* stay in the map.                                                        *)
Expired(key) == key \in DOMAIN cache /\ cache[key].expiry < now

C18_Get ==
    last'.op = "get" =>
        LET key == last'.key
        IN  /\ ~IsNone(last'.value) =>
                    /\ key \in DOMAIN cache
                    /\ cache[key].expiry >= now
                    /\ Val(last'.value) = cache[key].value
            /\ Expired(key) =>
                    /\ IsNone(last'.value)
                    /\ DOMAIN cache' = DOMAIN cache \ {key}
            /\ key \notin DOMAIN cache => IsNone(last'.value)
            /\ ~Expired(key) => cache' = cache
            /\ \A other \in DOMAIN cache \ {key} :
                    other \in DOMAIN cache' /\ cache'[other] = cache[other]

C18_NoSweep ==
    /\ \A key \in DOMAIN cache \ DOMAIN cache' :
            last'.op = "get" /\ last'.key = key /\ Expired(key)
    /\ \A key \in DOMAIN cache' \ DOMAIN cache :
            last'.op = "set" /\ last'.key = key
    /\ now' # now => cache' = cache

C18_LazyExpiry == [][C18_Get /\ C18_NoSweep]_vars

(* a get has just removed the expired entry it found, and the expired      *)
(* entry of the other key is still in the map                              *)
C18_Witness ==
    /\ last.op = "get"
    /\ last.found
    /\ IsNone(last.value)
    /\ last.key \notin DOMAIN cache
    /\ \E other \in Keys \ {last.key} : Expired(other)

(* a get returned the value of an entry at the instant of its expiry *)
C18_WitnessAtExpiry ==
    /\ last.op = "get"
    /\ ~IsNone(last.value)
    /\ cache[last.key].expiry = now
    /\ now > 0

----------------------------------------------------------------------------
(* C19: one _make_request call with the configured maximum max_retries     *)
(* makes at most max_retries + 1 HTTP attempts; HTTP-status errors and     *)
(* transport errors count on the same counter; the wait before the k-th    *)
(* retry, k from 0, is 2^k seconds (1, 2, 4 by default); there is no wait  *)
(* before the first attempt and none after the last failed attempt.        *)
Finished == cpc \in {"finished", "returned"}

C19_RetryPolicy ==
    /\ Len(attempts) <= max_retries + 1
    /\ retries <= max_retries
    /\ Len(sleeps) = retries
    /\ \A k \in 0 .. Len(sleeps) - 1 : sleeps[k + 1] = 2 ^ k
    /\ (max_retries = feddit_max_retries /\ Len(sleeps) = max_retries) =>
            sleeps = << 1, 2, 4 >>
    /\ attempts = << >> => sleeps = << >>
    /\ cpc = "attempt" => Len(attempts) = retries
    /\ cpc = "sleep" =>
            /\ Len(attempts) = retries + 1
            /\ attempts[Len(attempts)] \in RetriedErrors
    /\ Finished => Len(sleeps) = Len(attempts) - 1
    /\ \A k \in 1 .. Len(attempts) - 1 : attempts[k] \in RetriedErrors

(* the default maximum exhausted by errors of both kinds *)
C19_Witness ==
    /\ Finished
    /\ max_retries = feddit_max_retries
    /\ Len(attempts) = max_retries + 1
    /\ sleeps = << 1, 2, 4 >>
    /\ {attempts[k] : k \in 1 .. Len(attempts)} = RetriedErrors

----------------------------------------------------------------------------
(* C20: an attempt that succeeds is the last one, and _make_request        *)
(* returns its decoded body; when all max_retries + 1 attempts fail with   *)
(* an HTTP-status or a transport error, _make_request raises               *)
(* FedditAPIError; get_comments raises that failure of its comments        *)
(* request again, and only the subfeddit-list refresh turns it into a      *)
(* returned list.                                                          *)
AllFailed ==
    /\ Len(attempts) = max_retries + 1
    /\ \A k \in 1 .. Len(attempts) : attempts[k] \in RetriedErrors

C20_RequestOutcome ==
    /\ \A k \in 1 .. Len(attempts) :
            attempts[k] = "ok" =>
                /\ k = Len(attempts)
                /\ Finished
                /\ request_result.raised = ""
                /\ request_result.value = k
    /\ AllFailed => Finished /\ request_result.raised = "FedditAPIError"
    /\ (Finished /\ request_result.raised = "FedditAPIError") => AllFailed
    /\ (cpc = "returned" /\ endpoint = "/api/v1/comments/") =>
            caller_result = request_result
    /\ (cpc = "returned" /\ endpoint = "/api/v1/subfeddits/"
            /\ request_result.raised = "FedditAPIError") =>
            caller_result.raised = ""

(* get_comments has raised the failure of an exhausted comments request *)
C20_Witness ==
    /\ cpc = "returned"
    /\ endpoint = "/api/v1/comments/"
    /\ AllFailed
    /\ max_retries > 0
    /\ caller_result.raised = "FedditAPIError"

(* a success after two failures; a refresh failure answered from the cache *)
C20_WitnessRetrySucceeds ==
    /\ cpc = "returned"
    /\ Len(attempts) = 3
    /\ request_result.raised = ""

C20_WitnessSwallowed ==
    /\ cpc = "returned"
    /\ endpoint = "/api/v1/subfeddits/"
    /\ AllFailed
    /\ ~IsNone(subfeddits_cache)
    /\ caller_result.value = Val(subfeddits_cache)

----------------------------------------------------------------------------
(* Vocabulary of the client's calls *)

Returning == lookup.pc # "returned" /\ lookup'.pc = "returned"

ListAnswered(outcome) ==
    /\ lookup.pc = "list"
    /\ Len(lookup'.outcomes) = 1
    /\ lookup'.outcomes[1] = outcome

IssuedList(call) == call.requests # << >> /\ call.requests[1] = ListRequest

----------------------------------------------------------------------------
(* C21: _get_subfeddits never raises an upstream failure.  The list cache  *)
(* changes only when a list request succeeds, to the list fetched; a list  *)
(* request that fails after its retries leaves the caches as they are, and *)
(* _get_subfeddits then returns the cached list, older than the TTL or     *)
(* not, and the empty list when there is none.                             *)
C21_NeverRaises ==
    (lookup.op = "_get_subfeddits" /\ lookup.pc = "returned") =>
        lookup.result.raised # "FedditAPIError"

C21_StaleOnFailure ==
    /\ ListAnswered("FedditAPIError") =>
            /\ subfeddits_cache' = subfeddits_cache
            /\ cache_timestamp' = cache_timestamp
            /\ lookup.op = "_get_subfeddits" =>
                    lookup'.result = Returned(IF IsNone(subfeddits_cache) THEN 0
                                              ELSE Val(subfeddits_cache))
    /\ ListAnswered("ok") => subfeddits_cache' = Some(upstream_subfeddits)
    /\ subfeddits_cache' # subfeddits_cache => ListAnswered("ok")

C21_RefreshFailure == []C21_NeverRaises /\ [][C21_StaleOnFailure]_vars

(* a failed refresh answered with a list fetched more than a TTL ago *)
C21_Witness ==
    /\ lookup.op = "_get_subfeddits"
    /\ lookup.pc = "returned"
    /\ lookup.outcomes = << "FedditAPIError" >>
    /\ ~IsNone(subfeddits_cache)
    /\ now - Val(cache_timestamp) > client_cache_ttl
    /\ lookup.requests = << ListRequest >>
    /\ lookup.result = Returned(Val(subfeddits_cache))
    /\ ListOf(Val(subfeddits_cache)) # << >>

(* a failed refresh with no list fetched before *)
C21_WitnessEmpty ==
    /\ lookup.op = "_get_subfeddits"
    /\ lookup.pc = "returned"
    /\ lookup.outcomes = << "FedditAPIError" >>
    /\ IsNone(subfeddits_cache)
    /\ lookup.result = Returned(0)

----------------------------------------------------------------------------
(* C22: the subfeddit list is cached for 10 minutes.  With T the time of   *)
(* the last successful refresh, a _get_subfeddits call at a time t with    *)
(* t - T < 10 minutes returns the cached list and issues no request; a     *)
(* call at t - T >= 10 minutes issues a list request; no call of the       *)
(* client issues a list request while t - T < 10 minutes; T is set by a    *)
(* successful refresh only, to the time of its response.                   *)
Calling == lookup.pc \in {"idle", "returned"} /\ lookup' # lookup

Age == now - Val(cache_timestamp)

C22_Refreshed == ~IsNone(cache_timestamp) => ~IsNone(subfeddits_cache)

C22_Call ==
    /\ (Calling /\ lookup'.op = "_get_subfeddits" /\ ~IsNone(cache_timestamp)) =>
            IF Age < client_cache_ttl
            THEN /\ lookup'.pc = "returned"
                 /\ lookup'.requests = << >>
                 /\ lookup'.result = Returned(Val(subfeddits_cache))
            ELSE /\ lookup'.pc = "list"
                 /\ lookup'.requests = << ListRequest >>
    /\ (Calling /\ IssuedList(lookup')) =>
            (IsNone(cache_timestamp) \/ Age >= client_cache_ttl)
    /\ ListAnswered("ok") => cache_timestamp' = Some(now)
    /\ cache_timestamp' # cache_timestamp => ListAnswered("ok")

C22_ListTtl == []C22_Refreshed /\ [][C22_Call]_vars

(* a call one second before the list expires, answered from the cache *)
C22_Witness ==
    /\ lookup.op = "_get_subfeddits"
    /\ lookup.pc = "returned"
    /\ lookup.requests = << >>
    /\ ~IsNone(cache_timestamp)
    /\ Age = client_cache_ttl - 1

(* a call at the instant of expiry, which goes upstream *)
C22_WitnessExpired ==
    /\ lookup.op = "_get_subfeddits"
    /\ lookup.pc = "list"
    /\ ~IsNone(cache_timestamp)
    /\ Age = client_cache_ttl

----------------------------------------------------------------------------
(* C23: a get_subfeddit_info or get_comments call that does not find the   *)
(* lower-cased name in its lookup cache issues a list request to the       *)
(* upstream, within the TTL of the list cache too, and reports absent or   *)
(* "not found" only after that request.                                    *)
LookupCache(op) ==
    IF op = "get_comments" THEN name_to_id_cache ELSE name_to_info_cache

C23_Miss ==
    (/\ Calling
     /\ lookup'.op \in {"get_subfeddit_info", "get_comments"}
     /\ Lower(lookup'.name) \notin DOMAIN LookupCache(lookup'.op)) =>
        /\ lookup'.pc = "list"
        /\ lookup'.requests = << ListRequest >>

C23_RefreshOnMiss == [][C23_Miss]_vars

(* the state that the code reaches instead: "not found" reported for a     *)
(* subfeddit that the upstream lists, with no request made                 *)
C23_Diverged ==
    /\ lookup.op = "get_comments"
    /\ lookup.pc = "returned"
    /\ lookup.message = "not found"
    /\ lookup.requests = << >>
    /\ Lower(lookup.name) \in DOMAIN update_lookup_caches(ListOf(upstream_subfeddits)).ids

----------------------------------------------------------------------------
(* C24: get_subfeddit_info raises nothing, whatever the upstream does: it  *)
(* returns the SubfedditInfo of the name or absent.  So the request with a *)
(* non-empty result never ends in an error on account of the metadata      *)
(* lookup: it is answered with its comments, with or without the info.     *)
C24_InfoNeverFails ==
    /\ lookup.op = "get_subfeddit_info" =>
            /\ lookup.pc \in {"list", "returned"}
            /\ lookup.result.raised = ""
            /\ lookup.message = ""
            /\ \/ IsNone(lookup.info)
               \/ Lower(Val(lookup.info).title) = Lower(lookup.name)
    /\ pc # "raised"
    /\ error = ""
    /\ pc = "done" =>
            /\ response.sent
            /\ response.comments = processed_comments
            /\ response.total_comments = Len(comments_with_sentiment)
            /\ comments_with_sentiment # << >> =>
                    /\ lookup.op = "get_subfeddit_info"
                    /\ response.subfeddit_info = lookup.info

(* the refresh raised something that is not an upstream failure, and the   *)
(* comments were returned without the info                                 *)
C24_Witness ==
    /\ pc = "done"
    /\ response.total_comments = 2
    /\ lookup.op = "get_subfeddit_info"
    /\ lookup.outcomes = << "ValueError" >>
    /\ response.subfeddit_info = None

(* the list request failed on all retries and the stale cache answered *)
C24_WitnessStale ==
    /\ pc = "done"
    /\ lookup.outcomes = << "FedditAPIError" >>
    /\ ~IsNone(response.subfeddit_info)

(* the refreshed list no longer has the subfeddit: absent *)
C24_WitnessMissing ==
    /\ pc = "done"
    /\ lookup.outcomes = << "ok" >>
    /\ IsNone(response.subfeddit_info)
    /\ response.total_comments = 2

----------------------------------------------------------------------------
(* C25: get_comments resolves the name by an exact match of its            *)
(* lower-cased form with the lower-cased title of an entry of the cached   *)
(* list.  Unresolved after the lookup, it raises "not found" and issues no *)
(* comments request; resolved, it issues one comments request with the id  *)
(* of the entry, the given skip and the given limit.                       *)
CachedList == IF IsNone(subfeddits_cache) THEN << >> ELSE ListOf(Val(subfeddits_cache))

Matching(name) ==
    {i \in 1 .. Len(CachedList) : Lower(CachedList[i].title) = Lower(name)}

CommentsRequests(call) ==
    {k \in 1 .. Len(call.requests) : call.requests[k].endpoint = "/api/v1/comments/"}

Resolved(call) ==
    /\ call.message = ""
    /\ \E k \in 1 .. Len(call.requests) :
            /\ CommentsRequests(call) = {k}
            /\ k = Len(call.requests)
            /\ \E i \in Matching(call.name) :
                    call.requests[k]
                        = CommentsRequest(CachedList[i].id, call.skip, call.limit)

NotFound(call) ==
    /\ call.pc = "returned"
    /\ call.result.raised = "FedditAPIError"
    /\ call.message = "not found"
    /\ CommentsRequests(call) = {}

Settled(call) == call.op = "get_comments" /\ call.pc \in {"comments", "returned"}

RefreshBroke(call) ==
    /\ IssuedList(call)
    /\ call.outcomes # << >>
    /\ call.outcomes[1] \notin {"ok", "FedditAPIError"}

C25_WitnessNoPrefix ==
    /\ Settled(lookup)
    /\ lookup.name = "TECH"
    /\ NotFound(lookup)
    /\ subfeddits_cache = Some(3)
    /\ lookup.outcomes = << "ok" >>

----------------------------------------------------------------------------
(* The route GET /subfeddits/{subfeddit_name}/sentiment, routes.py.  The   *)
(* framework validates the query parameters before it calls the handler;   *)
(* the handler validates sort_order, awaits the service and maps what the  *)
(* service raises to a status code.  A detail is the sequence of its       *)
(* parts; str(e) is the kind of the exception e.                           *)

query_limit_default == 25

query_limit_ge == 1

query_limit_le == 100

UnprocessableDetail == << "limit" >>

UnavailablePrefix == "Unable to fetch data from Feddit API: "

InvalidPrefix == "Invalid parameter: "

GenericDetail == "Internal server error occurred while processing request"

(* a limit parameter declared without ge and le *)
QueryLimitOk_Unbounded(limit) == TRUE

(* Query(default=25, ge=1, le=100) *)
QueryLimitOk(limit) ==
    IsNone(limit) \/ (Val(limit) >= query_limit_ge /\ Val(limit) <= query_limit_le)

QueryLimit(limit) == IF IsNone(limit) THEN query_limit_default ELSE Val(limit)

HttpResponse(status, detail) == [entered |-> TRUE, status |-> status, detail |-> detail]

(* ValueError and its subclasses: json.JSONDecodeError (response.json() on *)
(* a body that is not JSON), pydantic's ValidationError (CommentBase on a  *)
(* field of the wrong type)                                                *)
ValueErrors == {"ValueError", "JSONDecodeError", "ValidationError"}

(* the except clauses of the handler, in their order *)
handle_exception_Leaking(e) ==
    CASE e = "FedditAPIError" -> HttpResponse(503, << UnavailablePrefix, e >>)
      [] e \in ValueErrors -> HttpResponse(400, << InvalidPrefix, e >>)
      [] OTHER -> HttpResponse(500, << GenericDetail, e >>)

handle_exception(e) ==
    CASE e = "FedditAPIError" -> HttpResponse(503, << UnavailablePrefix, e >>)
      [] e \in ValueErrors -> HttpResponse(400, << InvalidPrefix, e >>)
      [] OTHER -> HttpResponse(500, << GenericDetail >>)

(* the sort_order check of the handler *)
RouteSortOk(sort_order) == IsNone(sort_order) \/ Val(sort_order) \in {"asc", "desc"}

(* A request arrives: query validation, then the handler up to its call of *)
(* the service                                                             *)
RouteEnter ==
    /\ pc = "request"
    /\ ~http.entered
    /\ http.status = 0
    /\ IF ~QueryLimitOk(req.limit)
       THEN /\ http' = [entered |-> FALSE, status |-> 422, detail |-> UnprocessableDetail]
            /\ req' = req
       ELSE IF ~RouteSortOk(req.sort_order)
       THEN /\ http' = handle_exception("ValueError")
            /\ req' = req
       ELSE /\ http' = [http EXCEPT !.entered = TRUE]
            /\ req' = [req EXCEPT !.limit = Some(QueryLimit(req.limit))]
    /\ UNCHANGED << pages, tail, pc, validated_limit, start_date, end_date, skip,
                    all_matching_comments, batch_comments, branch, calls, scored,
                    comments_with_sentiment, error, response, processed_comments,
                    info_calls, threads, tasks, scorer_vars, client_vars >>

(* The service runs only while the handler awaits it *)
Awaiting == http.entered /\ http.status = 0

RouteService == Awaiting /\ Next

(* The service returned or raised: the handler returns or maps the exception *)
RouteReturn ==
    /\ Awaiting
    /\ pc \in {"done", "raised"}
    /\ http' = IF pc = "done" THEN HttpResponse(200, << >>) ELSE handle_exception(error)
    /\ UNCHANGED << threads, tasks, service_vars, scorer_vars, client_vars >>

NextRoute ==
    \/ RouteEnter
    \/ RouteService
    \/ RouteReturn

(* What the reply to a comments request can make get_comments do, a       *)
(* malformed reply included: a body that is not JSON (response.json()      *)
(* raises json.JSONDecodeError, which _make_request does not catch), an    *)
(* entry without a required field (KeyError), an entry with a field of the *)
(* wrong type (ValidationError); get_comments catches FedditAPIError only. *)
ReplyOutcomes == Outcomes \cup {"JSONDecodeError", "ValidationError"}

RouteServiceOnReplies ==
    /\ Awaiting
    /\ \/ Analyze
       \/ FastFetchOn(ReplyOutcomes)
       \/ LoopFetchOn(ReplyOutcomes)
       \/ Respond
       \/ InfoReturn

NextReplies ==
    \/ RouteEnter
    \/ RouteServiceOnReplies
    \/ RouteReturn

(* Every limit, against a small upstream *)
InitRoute ==
    InitWith({<< >>, << << 1, 2, 3 >> >>}, {<< >>},
             Requests(LimitInputs,
                      {None, Some("desc"), Some("None"), Some("invalid")},
                      {None, Some(Garbage), Some(Iso(2))}))

SpecRoute == InitRoute /\ [][NextRoute]_vars

SpecReplies == InitRoute /\ [][NextReplies]_vars

----------------------------------------------------------------------------
Answered == http.status # 0

ElementsOf(seq) == {seq[i] : i \in 1 .. Len(seq)}

C26_Mapping ==
    /\ http.status \in {0, 200, 400, 422, 500, 503}
    /\ http.status = 422 <=> (Answered /\ ~QueryLimitOk(req.limit))
    /\ http.status = 422 => ~http.entered /\ pc = "request" /\ calls = << >>
    /\ http.status = 200 => pc = "done"
    /\ http.status = 503 =>
            /\ pc = "raised" /\ error = "FedditAPIError"
            /\ http.detail = << UnavailablePrefix, error >>
    /\ http.status = 400 =>
            /\ \/ pc = "raised" /\ error = "ValueError"
               \/ pc = "request" /\ ~RouteSortOk(req.sort_order)
            /\ http.detail = << InvalidPrefix, "ValueError" >>
    /\ http.status = 500 =>
            /\ pc = "raised" /\ error \notin {"FedditAPIError", "ValueError"}
            /\ http.detail = << GenericDetail >>
            /\ error \notin ElementsOf(http.detail)
    /\ (Answered /\ pc = "raised") =>
            http.status = CASE error = "FedditAPIError" -> 503
                            [] error = "ValueError" -> 400
                            [] OTHER -> 500

C26_Once == Answered => http' = http /\ pc' = pc /\ error' = error

C26_WitnessUnavailable == http.status = 503 /\ calls # << >>

C26_WitnessUnprocessable == http.status = 422 /\ ~IsNone(req.limit) /\ Val(req.limit) = 101

----------------------------------------------------------------------------
(* Threads on sentiment_cache.  InMemoryCache takes no lock: a call of get *)
(* or set is a sequence of steps, one per access to the dict or to the     *)
(* clock, and the steps of different threads interleave.                   *)

NumThreads == 2

ThreadIds == 1 .. NumThreads

ThreadKeys == {"k1"}

ThreadTtls == {Some(0), Some(1)}

IdleThread == [op |-> "none", pc |-> "idle", key |-> "", value |-> "", expiry |-> 0,
               result |-> None, raised |-> ""]

(* A thread that has made no call yet is not in the map *)
ThreadOf(t) == IF t \in DOMAIN threads THEN threads[t] ELSE IdleThread

ThreadStep(t, thread) ==
    /\ threads' = (t :> thread) @@ threads
    /\ UNCHANGED << http, tasks, now, last, service_vars, client_vars >>

(* a thread calls get(key) *)
ThreadGet(t) ==
    /\ ThreadOf(t).pc \in {"idle", "returned"}
    /\ \E key \in ThreadKeys :
            ThreadStep(t, [IdleThread EXCEPT !.op = "get", !.pc = "test", !.key = key])
    /\ cache' = cache

(* a thread calls set(key, value, ttl): cache.py:42-46, the expiry time is *)
(* computed from the clock before the store                                *)
ThreadSet(t) ==
    /\ ThreadOf(t).pc \in {"idle", "returned"}
    /\ \E key \in ThreadKeys, value \in Values, ttl \in ThreadTtls :
            ThreadStep(t, [IdleThread EXCEPT !.op = "set", !.pc = "store", !.key = key,
                                             !.value = value,
                                             !.expiry = now + Val(ttl)])
    /\ cache' = cache

(* cache.py:47, self._cache[key] = (value, expiry_time) *)
SetStore(t) ==
    /\ ThreadOf(t).pc = "store"
    /\ cache' = (ThreadOf(t).key :> [value |-> ThreadOf(t).value,
                                    expiry |-> ThreadOf(t).expiry]) @@ cache
    /\ ThreadStep(t, [ThreadOf(t) EXCEPT !.pc = "returned"])

(* cache.py:30-31, if key not in self._cache: return None *)
GetTest(t) ==
    /\ ThreadOf(t).pc = "test"
    /\ IF ThreadOf(t).key \notin DOMAIN cache
       THEN ThreadStep(t, [ThreadOf(t) EXCEPT !.pc = "returned"])
       ELSE ThreadStep(t, [ThreadOf(t) EXCEPT !.pc = "read"])
    /\ cache' = cache

(* cache.py:33, value, expiry_time = self._cache[key] *)
GetRead(t) ==
    /\ ThreadOf(t).pc = "read"
    /\ IF ThreadOf(t).key \notin DOMAIN cache
       THEN ThreadStep(t, [ThreadOf(t) EXCEPT !.pc = "returned", !.raised = "KeyError"])
       ELSE ThreadStep(t, [ThreadOf(t) EXCEPT !.pc = "check",
                                             !.value = cache[ThreadOf(t).key].value,
                                             !.expiry = cache[ThreadOf(t).key].expiry])
    /\ cache' = cache

(* cache.py:36 and 40, if self.__is_expired(expiry_time) ... return value *)
GetCheck(t) ==
    /\ ThreadOf(t).pc = "check"
    /\ IF is_expired(ThreadOf(t).expiry)
       THEN ThreadStep(t, [ThreadOf(t) EXCEPT !.pc = "delete"])
       ELSE ThreadStep(t, [ThreadOf(t) EXCEPT !.pc = "returned",
                                             !.result = Some(ThreadOf(t).value)])
    /\ cache' = cache

(* cache.py:37-38, del self._cache[key]; return None *)
GetDelete(t) ==
    /\ ThreadOf(t).pc = "delete"
    /\ IF ThreadOf(t).key \notin DOMAIN cache
       THEN /\ ThreadStep(t, [ThreadOf(t) EXCEPT !.pc = "returned", !.raised = "KeyError"])
            /\ cache' = cache
       ELSE /\ ThreadStep(t, [ThreadOf(t) EXCEPT !.pc = "returned"])
            /\ cache' = Without(cache, ThreadOf(t).key)

NextThreads ==
    \/ \E t \in ThreadIds : ThreadGet(t)
    \/ \E t \in ThreadIds : ThreadSet(t)
    \/ \E t \in ThreadIds : SetStore(t)
    \/ \E t \in ThreadIds : GetTest(t)
    \/ \E t \in ThreadIds : GetRead(t)
    \/ \E t \in ThreadIds : GetCheck(t)
    \/ \E t \in ThreadIds : GetDelete(t)
    \/ Tick

SpecThreads == InitScorer /\ [][NextThreads]_vars

----------------------------------------------------------------------------
(* C27: whatever the interleaving of the get and set calls of the threads  *)
(* on one key, no call raises an error.                                    *)
C27_ThreadSafe == \A t \in ThreadIds : ThreadOf(t).raised = ""

----------------------------------------------------------------------------
(* analyze_batch, analyzer.py:116-129: the loop appends the result of      *)
(* analyze_text for each text, on the cache the earlier texts left.        *)

MaxBatchLen == 3

RECURSIVE batch_loop_Dropping(_, _, _)
batch_loop_Dropping(c, texts, results) ==
    IF texts = << >> THEN [results |-> results, cache |-> c]
    ELSE LET r == analyze_text(c, Head(texts))
         IN  batch_loop_Dropping(r.cache, Tail(texts),
                                 IF TextBlob(Head(texts)).raised # "" THEN results
                                 ELSE Append(results, r.result))

analyze_batch_Dropping(c, texts) == batch_loop_Dropping(c, texts, << >>)

RECURSIVE batch_loop(_, _, _)
batch_loop(c, texts, results) ==
    IF texts = << >> THEN [results |-> results, cache |-> c]
    ELSE LET r == analyze_text(c, Head(texts))
         IN  batch_loop(r.cache, Tail(texts), Append(results, r.result))

analyze_batch(c, texts) == batch_loop(c, texts, << >>)

BatchInputs ==
    UNION {[1 .. k -> {Texts[i] : i \in 1 .. Len(Texts)}] : k \in 0 .. MaxBatchLen}

(* one call of analyze_batch *)
AnalyzeBatch ==
    /\ \E texts \in BatchInputs :
            LET r == analyze_batch(cache, texts)
            IN  /\ cache' = r.cache
                /\ last' = [op |-> "analyze_batch", texts |-> texts, before |-> cache,
                            results |-> r.results]
    /\ UNCHANGED << boundary_vars, now, service_vars, client_vars >>

NextBatch == AnalyzeBatch \/ Tick

SpecBatch == InitScorer /\ [][NextBatch]_vars

----------------------------------------------------------------------------
(* The cache that the calls of analyze_text on the texts leave, one call   *)
(* after the other                                                         *)
RECURSIVE CacheAfter(_, _)
CacheAfter(c, texts) ==
    IF texts = << >> THEN c
    ELSE analyze_text(CacheAfter(c, SubSeq(texts, 1, Len(texts) - 1)),
                      texts[Len(texts)]).cache

(* C28: analyze_batch(texts) returns as many results as there are texts;   *)
(* the i-th is the result of analyze_text on the i-th text after the calls *)
(* on the texts before it; a text whose scoring fails gets the fallback    *)
(* score at its position and every other text its own score.               *)
C28_Batch ==
    last.op = "analyze_batch" =>
        /\ Len(last.results) = Len(last.texts)
        /\ \A i \in 1 .. Len(last.texts) :
            /\ last.results[i] =
                   analyze_text(CacheAfter(last.before, SubSeq(last.texts, 1, i - 1)),
                                last.texts[i]).result
            /\ TextBlob(last.texts[i]).raised # "" => last.results[i] = FallbackResult
            /\ TextBlob(last.texts[i]).raised = "" =>
                   /\ last.results[i].polarity_score = TextBlob(last.texts[i]).value
                   /\ last.results[i].classification =
                          classify_sentiment(TextBlob(last.texts[i]).value)

C28_Witness ==
    /\ last.op = "analyze_batch"
    /\ Len(last.texts) = 3
    /\ TextBlob(last.texts[2]).raised # ""
    /\ last.results[1].polarity_score < 0
    /\ last.results[3].polarity_score > 0

----------------------------------------------------------------------------
(* A request that is scheduled until it ends: the event loop resumes the   *)
(* coroutine whenever the call it awaits has returned or raised.           *)
InitLive ==
    InitWith(Upstreams(MaxTotal), {<< >>},
             Requests({Some(l) : l \in 1 .. MaxLimit}, {None}, DateInputs))

SpecLive == InitLive /\ [][Next]_vars /\ WF_vars(Next)

Ended == pc \in {"done", "raised"}

IdsOf(comments) == [i \in 1 .. Len(comments) |-> comments[i].id]

(* the upstream has nothing but empty batches from offset batch_size * n on *)
EmptyFrom(n) == tail = << >> /\ \A k \in n + 1 .. Len(pages) : pages[k] = << >>

C29_Bound ==
    Windowed => \A n \in 0 .. Len(pages) : EmptyFrom(n) => Len(calls) <= n + 1

C29_Step ==
    (pc = "loop" /\ calls' # calls) =>
        LET call == calls'[Len(calls')]
        IN  /\ call.outcome # "ok" => pc' # "loop"
            /\ (call.outcome = "ok" /\ get_comments(call.skip, call.limit) = << >>) =>
                    /\ pc' = "fetched"
                    /\ error' = ""
                    /\ all_matching_comments' = all_matching_comments
                    /\ IdsOf(comments_with_sentiment') =
                           IdsOf(FinalComments(all_matching_comments, validated_limit))

(* C29: against an upstream that returns an empty batch or fails at some   *)
(* offset, a windowed query ends, returning or raising, after at most as   *)
(* many fetches as there are offsets up to that one; a fetch that fails    *)
(* ends the loop, and an empty batch ends it at once with the accumulated  *)
(* matches, cut to the limit, returned without error.                      *)
C29_Termination == <>Ended /\ []C29_Bound /\ [][C29_Step]_vars

C29_Witness ==
    /\ pc = "done"
    /\ branch = "exhausted"
    /\ Len(calls) = 3
    /\ comments_with_sentiment # << >>

C29_WitnessNone ==
    /\ pc = "done"
    /\ branch = "exhausted"
    /\ Len(calls) > 1
    /\ comments_with_sentiment = << >>

----------------------------------------------------------------------------
(* C30: the fetches of a windowed query are issued at the offsets 0, 100,  *)
(* 200, ... in this order, each with limit 100, whatever the requested     *)
(* limit and the lengths of the batches received; the next fetch, if any,  *)
(* is at the next multiple of 100.                                         *)
C30_Offsets ==
    Windowed =>
        /\ \A k \in 1 .. Len(calls) :
            /\ calls[k].skip = batch_size * (k - 1)
            /\ calls[k].limit = batch_size
        /\ pc = "loop" => skip = batch_size * Len(calls)

C30_Witness ==
    /\ Windowed
    /\ Len(calls) = 3
    /\ calls[3].skip = 2 * batch_size
    /\ validated_limit < batch_size
    /\ Len(pages[1]) < Len(pages[2])

----------------------------------------------------------------------------
C31_State ==
    Windowed =>
        /\ pc \in {"loop", "raised"} => scored = << >>
        /\ Fetched =>
            /\ scored = TextsOf(comments_with_sentiment)
            /\ Len(scored) <= validated_limit
            /\ IdsOf(comments_with_sentiment) =
                   IdsOf(SubSeq(all_matching_comments, 1, Len(scored)))
            /\ \A i \in 1 .. Len(comments_with_sentiment) :
                   /\ ~IsNone(start_date) =>
                          comments_with_sentiment[i].created_at >= Val(start_date)
                   /\ ~IsNone(end_date) =>
                          comments_with_sentiment[i].created_at <= Val(end_date)

C31_Step ==
    /\ calls' # calls => scored = << >>
    /\ (Windowed /\ scored' # scored) => pc' \notin {"loop", "request"}

(* C31: in a windowed query no analyze_text call precedes a get_comments   *)
(* call; once the loop has ended analyze_text has been called exactly once *)
(* for each returned comment, in their order and at most limit times, the  *)
(* returned comments being the first ones of the accumulator, all inside   *)
(* the window; nothing else is ever scored.                                *)
C31_ScoreAfterLoop == []C31_State /\ [][C31_Step]_vars

C31_Witness ==
    /\ Windowed
    /\ pc = "done"
    /\ Len(calls) = 2
    /\ calls[1].outcome = "ok"
    /\ Len(all_matching_comments) = 2
    /\ Len(scored) = 1

----------------------------------------------------------------------------
UpstreamFailed == \E k \in 1 .. Len(calls) : calls[k].outcome = "FedditAPIError"

C32_State ==
    /\ \A k \in 1 .. Len(calls) - 1 : calls[k].outcome = "ok"
    /\ UpstreamFailed =>
        /\ pc \notin {"request", "fast", "loop"}
        /\ ~Windowed => pc = "raised" /\ error = "FedditAPIError" /\ Len(calls) = 1
        /\ Windowed =>
            \/ pc = "raised" /\ error = "FedditAPIError" /\ all_matching_comments = << >>
            \/ Fetched /\ branch = "partial" /\ all_matching_comments # << >>

C32_Step == UpstreamFailed => calls' = calls

(* C32: once a get_comments call of a request has raised an upstream       *)
(* failure the request issues no other get_comments call: the fast path    *)
(* re-raises, the windowed loop returns what it accumulated or re-raises.  *)
C32_NoRetryAbove == []C32_State /\ [][C32_Step]_vars

C32_Witness ==
    /\ Windowed
    /\ pc = "done"
    /\ branch = "partial"
    /\ Len(calls) = 2
    /\ scored # << >>

C32_WitnessFast ==
    /\ ~Windowed
    /\ pc = "raised"
    /\ UpstreamFailed

----------------------------------------------------------------------------
(* the comment was received in a batch of the query *)
WasFetched(c) ==
    \E k \in 1 .. Len(calls) :
        /\ calls[k].outcome = "ok"
        /\ \E j \in 1 .. Len(get_comments(calls[k].skip, calls[k].limit)) :
            LET f == get_comments(calls[k].skip, calls[k].limit)[j]
            IN  f.id = c.id /\ f.text = c.text /\ f.created_at = c.created_at

(* C33: the result of a windowed query holds comments received in the      *)
(* batches of the query, in the order of their fetch and of their place in *)
(* the batch (ids grow with both), none twice, and as many as the smaller  *)
(* of limit and the size of the accumulator; upstream order is arbitrary.  *)
C33_Subsequence ==
    (Windowed /\ Fetched) =>
        /\ \A i \in 1 .. Len(comments_with_sentiment) :
               WasFetched(comments_with_sentiment[i])
        /\ \A i \in 1 .. Len(comments_with_sentiment) - 1 :
               comments_with_sentiment[i].id < comments_with_sentiment[i + 1].id
        /\ Len(comments_with_sentiment)
               = Min(validated_limit, Len(all_matching_comments))

C33_Witness ==
    /\ Windowed /\ Fetched
    /\ Len(calls) >= 2
    /\ Len(comments_with_sentiment) = 2
    /\ comments_with_sentiment[1].id < batch_size
    /\ comments_with_sentiment[2].id > batch_size
    /\ comments_with_sentiment[1].created_at > comments_with_sentiment[2].created_at

----------------------------------------------------------------------------
Returned_(c) ==
    \E i \in 1 .. Len(comments_with_sentiment) : comments_with_sentiment[i].id = c.id

(* a query that ended without failure and with fewer than limit comments *)
ShortOfLimit ==
    /\ Windowed /\ Fetched /\ AllCallsOk
    /\ Len(comments_with_sentiment) < validated_limit

(* in-window comments of the upstream that a ShortOfLimit result lacks *)
Missing ==
    {i \in 1 .. Len(WholeUpstream) :
        InWindow(WholeUpstream[i].created_at) /\ ~Returned_(WholeUpstream[i])}

PageOf(c) == ((c.id - 1) \div batch_size) + 1

FetchedPage(k) == \E j \in 1 .. Len(calls) : calls[j].skip = (k - 1) * batch_size

(* an in-window comment lost in a batch that was fetched and skipped ahead *)
DroppedBySkipAhead ==
    /\ ShortOfLimit
    /\ \E i \in Missing :
        /\ FetchedPage(PageOf(WholeUpstream[i]))
        /\ ~IsNone(start_date)
        /\ LET page == get_comments((PageOf(WholeUpstream[i]) - 1) * batch_size,
                                    batch_size)
           IN  page[Len(page)].created_at < Val(start_date)

(* an in-window comment lost in a batch after the batch the loop stopped on *)
DroppedByStopEarly ==
    /\ ShortOfLimit
    /\ branch = "after_end"
    /\ \E i \in Missing : ~FetchedPage(PageOf(WholeUpstream[i]))

(* C34: an in-window comment is missing from a result that has fewer than  *)
(* limit comments and met no failure only when the upstream is not in      *)
(* non-decreasing time order; the missing comment then is in a batch that  *)
(* was skipped ahead, in the batch the loop stopped on, or in a batch      *)
(* after the batch the loop stopped on.                                    *)
C34_DropsOnlyUnordered ==
    (ShortOfLimit /\ Missing # {}) =>
        /\ ~Monotone(WholeUpstream)
        /\ \A i \in Missing :
            LET k == PageOf(WholeUpstream[i])
                page == get_comments((k - 1) * batch_size, batch_size)
            IN  \/ /\ FetchedPage(k)
                   /\ ~IsNone(start_date)
                   /\ page[Len(page)].created_at < Val(start_date)
                \/ /\ branch = "after_end"
                   /\ k >= Len(calls)

C34_Witness ==
    /\ DroppedBySkipAhead
    /\ pc = "done"

C34_WitnessStopEarly ==
    /\ DroppedByStopEarly
    /\ pc = "done"

----------------------------------------------------------------------------
(* the list request of the call in progress is answered by a failure *)
RefreshFails == lookup.pc = "list" /\ lookup' # lookup /\ lookup'.outcomes[1] # "ok"

C35_Frame ==
    RefreshFails =>
        /\ subfeddits_cache' = subfeddits_cache
        /\ cache_timestamp' = cache_timestamp
        /\ name_to_id_cache' = name_to_id_cache
        /\ name_to_info_cache' = name_to_info_cache
        /\ ~is_cache_valid'
        /\ ( /\ lookup.op = "get_comments"
             /\ lookup'.outcomes[1] = "FedditAPIError"
             /\ Lower(lookup.name) \in DOMAIN name_to_id_cache ) =>
                /\ lookup'.pc = "comments"
                /\ lookup'.requests =
                       << ListRequest,
                          CommentsRequest(name_to_id_cache[Lower(lookup.name)],
                                          lookup.skip, lookup.limit) >>

C35_RefreshAgain ==
    (Calling /\ ~is_cache_valid) =>
        /\ lookup'.pc = "list"
        /\ lookup'.requests = << ListRequest >>

(* C35: a list refresh that fails leaves the cached list, its timestamp    *)
(* and both lookup maps as they were, and the list cache expired; a name   *)
(* of the stale list still resolves during an upstream outage and          *)
(* get_comments goes on to its comments request; every call made while the *)
(* list cache is expired sends the list request again.                     *)
C35_FailedRefresh == [][C35_Frame /\ C35_RefreshAgain]_vars

C35_Witness ==
    /\ lookup.op = "get_comments"
    /\ Len(lookup.outcomes) = 1
    /\ lookup.outcomes[1] = "FedditAPIError"
    /\ lookup.pc = "comments"
    /\ ~IsNone(cache_timestamp)
    /\ now - Val(cache_timestamp) > client_cache_ttl

C35_WitnessAgain ==
    /\ lookup.pc = "list"
    /\ ~IsNone(subfeddits_cache)
    /\ ~IsNone(cache_timestamp)
    /\ now - Val(cache_timestamp) > client_cache_ttl
    /\ Val(subfeddits_cache) # upstream_subfeddits

----------------------------------------------------------------------------
(* Concurrent requests on the one FedditClient.  The tasks run on one      *)
(* event loop: a task keeps the processor from one await to the next, the  *)
(* awaits being the HTTP requests.  After its list request has returned,   *)
(* _get_subfeddits stores the list and the timestamp, clears the lookup    *)
(* maps and fills them entry by entry, with no await in between.           *)

NumTasks == 2

TaskIds == 1 .. NumTasks

TaskOps == {"get_subfeddit_info", "get_comments"}

TaskNames == {"TECH", "news"}

IdleTask == [call |-> NoLookup, step |-> "none", todo |-> << >>]

(* A task that has made no call yet is not in the map *)
TaskOf(t) == IF t \in DOMAIN tasks THEN tasks[t] ELSE IdleTask

(* a preemptive scheduler would let a task run at any point of another *)
MayRun_Preemptive(t) == TRUE

(* no other task is between two awaits *)
MayRun(t) == \A u \in TaskIds \ {t} : TaskOf(u).step = "none"

TaskStep(t, task) ==
    /\ tasks' = (t :> task) @@ tasks
    /\ UNCHANGED << http, threads, max_retries, request_vars, upstream_subfeddits,
                    lookup, service_vars, scorer_vars >>

(* a task enters get_subfeddit_info or get_comments: the cache-first       *)
(* lookup, up to its first request                                         *)
TaskCall(t) ==
    /\ MayRun(t)
    /\ TaskOf(t).step = "none"
    /\ TaskOf(t).call.pc \in {"idle", "returned"}
    /\ \E op \in TaskOps, name \in TaskNames :
            TaskStep(t, [IdleTask EXCEPT
                            !.call = StartCall(op, name, 0,
                                               IF op = "get_comments" THEN batch_size
                                               ELSE 0)])
    /\ UNCHANGED << subfeddits_cache, cache_timestamp, name_to_id_cache,
                    name_to_info_cache >>

(* the list request of a task returns: feddit_client.py:125-129 on         *)
(* success, 138-144 and the lookup of the caller on failure                *)
TaskListResponse(t) ==
    /\ MayRun(t)
    /\ TaskOf(t).step = "none"
    /\ TaskOf(t).call.pc = "list"
    /\ \E outcome \in ListOutcomes :
            LET answered == [TaskOf(t).call EXCEPT
                                !.outcomes = Append(TaskOf(t).call.outcomes, outcome)]
            IN  IF outcome = "ok"
                THEN /\ subfeddits_cache' = Some(upstream_subfeddits)
                     /\ cache_timestamp' = Some(now)
                     /\ TaskStep(t, [call |-> answered, step |-> "clear",
                                     todo |-> ListOf(upstream_subfeddits)])
                ELSE /\ TaskStep(t, [IdleTask EXCEPT
                                        !.call = LookupAfterRefresh(
                                                    answered,
                                                    get_subfeddits_response(outcome))])
                     /\ UNCHANGED << subfeddits_cache, cache_timestamp >>
    /\ UNCHANGED << name_to_id_cache, name_to_info_cache >>

(* feddit_client.py:94-95, both maps are cleared *)
TaskClear(t) ==
    /\ MayRun(t)
    /\ TaskOf(t).step = "clear"
    /\ name_to_id_cache' = << >>
    /\ name_to_info_cache' = << >>
    /\ TaskStep(t, [TaskOf(t) EXCEPT !.step = "fill"])
    /\ UNCHANGED << subfeddits_cache, cache_timestamp >>

(* feddit_client.py:97-109, one pass of the for loop *)
TaskFill(t) ==
    /\ MayRun(t)
    /\ TaskOf(t).step = "fill"
    /\ TaskOf(t).todo # << >>
    /\ LET subfeddit == Head(TaskOf(t).todo)
           title == Lower(subfeddit.title)
       IN  IF title = ""
           THEN UNCHANGED << name_to_id_cache, name_to_info_cache >>
           ELSE /\ name_to_id_cache' = (title :> subfeddit.id) @@ name_to_id_cache
                /\ name_to_info_cache' =
                       (title :> SubfedditInfo(subfeddit)) @@ name_to_info_cache
    /\ TaskStep(t, [TaskOf(t) EXCEPT !.todo = Tail(TaskOf(t).todo)])
    /\ UNCHANGED << subfeddits_cache, cache_timestamp >>

(* _get_subfeddits returns into the caller, which looks the name up *)
TaskLookup(t) ==
    /\ MayRun(t)
    /\ TaskOf(t).step = "fill"
    /\ TaskOf(t).todo = << >>
    /\ TaskStep(t, [IdleTask EXCEPT
                        !.call = AfterLookup(TaskOf(t).call, name_to_id_cache,
                                             name_to_info_cache)])
    /\ UNCHANGED << subfeddits_cache, cache_timestamp, name_to_id_cache,
                    name_to_info_cache >>

(* the comments request of a task returns *)
TaskCommentsResponse(t) ==
    /\ MayRun(t)
    /\ TaskOf(t).step = "none"
    /\ TaskOf(t).call.pc = "comments"
    /\ \E outcome \in Outcomes :
            TaskStep(t, [IdleTask EXCEPT
                            !.call = [TaskOf(t).call EXCEPT
                                         !.pc = "returned",
                                         !.outcomes = Append(@, outcome),
                                         !.result = get_comments_after_request(
                                                        IF outcome = "ok"
                                                        THEN Returned(TaskOf(t).call.skip)
                                                        ELSE Raised(outcome))]])
    /\ UNCHANGED << subfeddits_cache, cache_timestamp, name_to_id_cache,
                    name_to_info_cache >>

(* datetime.now() advances by a whole TTL of the list cache, at any point *)
TaskTick ==
    /\ now < 2 * client_cache_ttl
    /\ now' = now + client_cache_ttl
    /\ UNCHANGED << boundary_vars, cache, last, service_vars, client_vars >>

NextTasks ==
    \/ \E t \in TaskIds : TaskCall(t)
    \/ \E t \in TaskIds : TaskListResponse(t)
    \/ \E t \in TaskIds : TaskClear(t)
    \/ \E t \in TaskIds : TaskFill(t)
    \/ \E t \in TaskIds : TaskLookup(t)
    \/ \E t \in TaskIds : TaskCommentsResponse(t)
    \/ TaskTick
    \/ UpstreamChange

SpecTasks == InitScorer /\ [][NextTasks]_vars

----------------------------------------------------------------------------
(* a task is at a point where it reads the lookup maps: on entering a call *)
(* (cache-first), and after the refresh it awaited                         *)
AtLookup(t) ==
    /\ MayRun(t)
    /\ \/ TaskOf(t).step = "none"
       \/ TaskOf(t).step = "fill" /\ TaskOf(t).todo = << >>

CachedTitles ==
    {Lower(CachedList[i].title) : i \in 1 .. Len(CachedList)} \ {""}

(* C36: with tasks interleaved at the awaits only, at every point where a  *)
(* task looks a name up both lookup maps have the same keys, the           *)
(* lower-cased non-empty titles of the cached list, with the ids and infos *)
(* of that list; no lookup sees the maps cleared and not yet filled.       *)
C36_MapsConsistent ==
    \A t \in TaskIds :
        AtLookup(t) =>
            /\ DOMAIN name_to_id_cache = CachedTitles
            /\ DOMAIN name_to_info_cache = CachedTitles
            /\ name_to_id_cache = update_lookup_caches(CachedList).ids
            /\ name_to_info_cache = update_lookup_caches(CachedList).infos

C36_Witness ==
    /\ TaskOf(1).step = "fill"
    /\ TaskOf(1).todo # << >>
    /\ name_to_id_cache = << >>
    /\ CachedTitles # {}
    /\ TaskOf(2).call.pc = "list"
    /\ ~AtLookup(2)

C36_WitnessTwoRefreshes ==
    /\ TaskOf(1).call.pc = "returned"
    /\ TaskOf(2).call.pc = "returned"
    /\ TaskOf(1).call.outcomes # << >>
    /\ TaskOf(2).call.outcomes # << >>
    /\ TaskOf(1).call.outcomes[1] = "ok"
    /\ TaskOf(2).call.outcomes[1] = "ok"
    /\ TaskOf(1).call.op = "get_subfeddit_info"
    /\ IsNone(TaskOf(1).call.info)
    /\ TaskOf(1).call.name = "news"
    /\ "news" \in CachedTitles

----------------------------------------------------------------------------
(* C37: the fallback score is never stored.  A call of analyze_text for a  *)
(* text on which the black box raises returns the fallback, has invoked    *)
(* the black box (so does the next call for that text, and every one), and *)
(* leaves the cache as it was: no entry for the text, and the entries of   *)
(* other texts, expired ones included, unchanged.                          *)
Unscorable(text) == TextBlob(text).raised # ""

C37_NoFallbackEntry ==
    \A text \in {Texts[i] : i \in 1 .. Len(Texts)} :
        Unscorable(text) => create_key(text) \notin DOMAIN cache

C37_FallbackCall ==
    (last'.op = "analyze_text" /\ Unscorable(last'.text)) =>
        /\ last'.result = FallbackResult
        /\ last'.invoked
        /\ create_key(last'.text) \notin DOMAIN cache'
        /\ cache' = cache

C37_FallbackNotCached == []C37_NoFallbackEntry /\ [][C37_FallbackCall]_vars

(* the fallback returned while the score of another text is in the cache *)
C37_Witness ==
    /\ last.op = "analyze_text"
    /\ Unscorable(last.text)
    /\ last.result = FallbackResult
    /\ last.invoked
    /\ \E text \in {Texts[i] : i \in 1 .. Len(Texts)} :
            /\ create_key(text) \in DOMAIN cache
            /\ cache[create_key(text)].value = Score(text)
            /\ cache[create_key(text)].value # FallbackResult

----------------------------------------------------------------------------
(* C38: a request is answered 400 only for a bad parameter: the sort_order *)
(* check of the handler, or a ValueError that the validation of the        *)
(* service raised before any upstream call.  A malformed reply to a        *)
(* comments request is never answered 400.                                 *)
MalformedReply ==
    /\ calls # << >>
    /\ calls[Len(calls)].outcome \in {"JSONDecodeError", "ValidationError", "KeyError"}

C38_BadRequestOnlyForParameters ==
    http.status = 400 =>
        /\ ~MalformedReply
        /\ \/ pc = "request" /\ ~RouteSortOk(req.sort_order)
           \/ pc = "raised" /\ error = "ValueError" /\ calls = << >>

(* valid parameters, a comments reply that is not JSON, answered 400 *)
C38_Diverged ==
    /\ http.status = 400
    /\ http.detail = << InvalidPrefix, "JSONDecodeError" >>
    /\ MalformedReply
    /\ RouteSortOk(req.sort_order)
    /\ error = "JSONDecodeError"

----------------------------------------------------------------------------
(* C39: a successful response holds at most validated_limit comments, on   *)
(* the fast path and on the windowed path, whatever the upstream returns.  *)
C39_AtMostLimit ==
    pc = "done" => response.total_comments <= validated_limit

(* the windowed path alone does keep to the limit *)
C39_WindowedAtMostLimit ==
    (pc = "done" /\ Windowed) => response.total_comments <= validated_limit

(* no window, one call asking for validated_limit comments, an upstream    *)
(* that returned more, all of them in the response                         *)
C39_Diverged ==
    /\ pc = "done"
    /\ ~Windowed
    /\ Len(calls) = 1
    /\ calls[1].limit = validated_limit
    /\ calls[1].outcome = "ok"
    /\ response.total_comments > validated_limit
    /\ response.total_comments = Len(UpstreamPage(1))

----------------------------------------------------------------------------
(* C40: at the endpoint a limit outside 1..100 is answered 422 before the  *)
(* handler is entered, the service is never called for it and no upstream  *)
(* call is made; the service is called only with a limit it keeps as it    *)
(* is, so its clamping branch and its non-positive branch are not reached  *)
(* through the endpoint.                                                   *)
ServiceBranch(limit) ==
    IF IsNone(limit) THEN "default"
    ELSE IF Val(limit) > max_comment_limit THEN "clamp"
    ELSE IF Val(limit) <= 0 THEN "raise"
    ELSE "keep"

C40_State ==
    /\ ServiceBranch(req.limit) \in {"clamp", "raise"} =>
            /\ ~http.entered
            /\ http.status \in {0, 422}
            /\ pc = "request"
            /\ calls = << >> /\ info_calls = 0 /\ scored = << >>
    /\ http.status = 422 => ServiceBranch(req.limit) \in {"clamp", "raise"}
    /\ pc # "request" =>
            /\ http.entered
            /\ ServiceBranch(req.limit) = "keep"
            /\ LimitCheck(req.limit) = Returned(Val(req.limit))
            /\ validated_limit = Val(req.limit)
    /\ (pc = "raised" /\ error = "ValueError") => ~DatesOk

(* the first answer to a limit outside 1..100 is 422 *)
C40_Step ==
    (~Answered /\ Answered' /\ ServiceBranch(req.limit) \in {"clamp", "raise"}) =>
        /\ http'.status = 422
        /\ pc' = "request"
        /\ req' = req

C40_RejectedNotClamped == []C40_State /\ [][C40_Step]_vars

(* limit=0 answered 422, where the service would have raised *)
C40_Witness ==
    /\ http.status = 422
    /\ req.limit = Some(0)
    /\ LimitCheck(req.limit) = Raised("ValueError")

(* limit=101 answered 422, where the service would have clamped to 100 *)
C40_WitnessOver ==
    /\ http.status = 422
    /\ req.limit = Some(max_comment_limit + 1)
    /\ LimitCheck(req.limit) = Returned(max_comment_limit)

(* limit=100 reaches the service and is kept *)
C40_WitnessKept ==
    /\ http.status = 200
    /\ req.limit = Some(max_comment_limit)
    /\ validated_limit = max_comment_limit

====
